---- MODULE Spec2Model ----
(***************************************************************************)
(* A model of sql_agent_v1: the statement-safety validator                 *)
(* (database/connection.py), the measure index (utils/json_loader.py) and  *)
(* the staged pipeline (agent/nodes.py, agent/graph.py).                   *)
(*                                                                         *)
(* Text.  A Python str is a sequence of atoms.  An atom is one character   *)
(* (" ", newline, "-", "/", "*", "'", "_") or a run of letters that is     *)
(* written as one chunk ("SELECT", "insert", "INTO").  No two chunks       *)
(* concatenate to a keyword, so a keyword occurs in a string exactly where *)
(* its chunk occurs.  Longer texts (messages) are sequences of chunks too. *)
(***************************************************************************)
EXTENDS Integers, Sequences, FiniteSets, TLC

VARIABLES
    sql_in,         \* validate_sql called on its own: the argument
    validation,     \* ... and the returned (is_valid, error_msg)
    measures_dir,   \* the measures directory: file name -> content
    index_file,     \* the persisted index file
    index,          \* MeasureJSONLoader.index of the loader in use
    lookup,         \* the last find_measure_json call of that loader
    env_changes,    \* how many times the directory was changed from outside
    calls,          \* how many loader calls were made
    ctx,            \* the AgentState dict of the run
    pc,             \* the node the workflow runs next
    stage_log,      \* the nodes invoked so far, each with the state at entry
    lookups,        \* the get_measure_config calls of json_lookup_node
    db_env,         \* the environment of the run: DB_CONNECTION_STRING set?
    db,             \* a DatabaseConnection used directly: connection, cursor
    api_result,     \* what the last direct execute_* call was given and returned
    sent,           \* the statements handed to the driver so far
    gui,            \* SQLAgentGUI: current_state, the widgets, the review box
    runs,           \* the state dicts made by submit_query, one per submit
    threads,        \* the worker threads started so far, each with its position
    queue,          \* SQLAgentGUI.message_queue
    events,         \* what happened so far: stages run, messages put, clicks
    imports_ok      \* do the relative imports of gui/app.py resolve?

vars ==
    <<sql_in, validation, measures_dir, index_file, index, lookup, env_changes,
      calls, ctx, pc, stage_log, lookups, db_env, db, api_result, sent,
      gui, runs, threads, queue, events, imports_ok>>

coreVars == <<ctx, pc, stage_log, lookups, db_env, db, api_result, sent>>

sqlVars == <<sql_in, validation>>

indexVars == <<measures_dir, index_file, index, lookup, env_changes, calls>>

guiVars == <<gui, runs, threads, queue, events, imports_ok>>

-----------------------------------------------------------------------------
(* Python values *)

NL == "\n"

\* None, for an Optional[str] whose values are sequences of atoms
NONE == <<"<None>">>

\* bool(x) of an Optional[str]
Truthy(x) == x # NONE /\ x # <<>>

\* str.isspace of one character
IsSpace(a) == a \in {" ", NL}

\* \w of the re module: letters, digits and "_"
IsWordChar(a) == a \notin {" ", NL, "-", "/", "*", "'"}

\* str.upper, per atom
UpperAtom(a) == IF a = "insert" THEN "INSERT" ELSE a

\* str.lower, per atom
LowerAtom(a) ==
    CASE a = "CE" -> "ce"
      [] a = "PD" -> "pd"
      [] a = "Exposure" -> "exposure"
      [] a = "Zz" -> "zz"
      [] OTHER -> a

lower(s) == [k \in 1..Len(s) |-> LowerAtom(s[k])]

upper(s) == [k \in 1..Len(s) |-> UpperAtom(s[k])]

RECURSIVE lstrip(_)
lstrip(s) == IF s # <<>> /\ IsSpace(Head(s)) THEN lstrip(Tail(s)) ELSE s

RECURSIVE rstrip(_)
rstrip(s) ==
    IF s # <<>> /\ IsSpace(s[Len(s)]) THEN rstrip(SubSeq(s, 1, Len(s) - 1)) ELSE s

strip(s) == rstrip(lstrip(s))

startswith(s, word) == Len(s) >= 1 /\ s[1] = word

-----------------------------------------------------------------------------
(* DatabaseConnection.validate_sql *)

\* the end of the line that position i is on: ".*$" under re.MULTILINE
RECURSIVE EndOfLine(_, _)
EndOfLine(s, i) == IF i > Len(s) \/ s[i] = NL THEN i ELSE EndOfLine(s, i + 1)

\* re.sub(r'--.*$', '', s, flags=re.MULTILINE), scanning from position i
RECURSIVE SubLineComments(_, _)
SubLineComments(s, i) ==
    IF i > Len(s) THEN <<>>
    ELSE IF i < Len(s) /\ s[i] = "-" /\ s[i + 1] = "-"
         THEN SubLineComments(s, EndOfLine(s, i))
         ELSE <<s[i]>> \o SubLineComments(s, i + 1)

\* the first "*/" at or after position j, 0 when there is none: ".*?\*/"
RECURSIVE FindClose(_, _)
FindClose(s, j) ==
    IF j >= Len(s) THEN 0
    ELSE IF s[j] = "*" /\ s[j + 1] = "/" THEN j
    ELSE FindClose(s, j + 1)

\* re.sub(r'/\*.*?\*/', '', s, flags=re.DOTALL), scanning from position i
RECURSIVE SubBlockComments(_, _)
SubBlockComments(s, i) ==
    IF i > Len(s) THEN <<>>
    ELSE IF i < Len(s) /\ s[i] = "/" /\ s[i + 1] = "*" /\ FindClose(s, i + 2) # 0
         THEN SubBlockComments(s, FindClose(s, i + 2) + 2)
         ELSE <<s[i]>> \o SubBlockComments(s, i + 1)

\* the two re.sub calls of validate_sql, in the order of the code
StripComments(s) == SubBlockComments(SubLineComments(s, 1), 1)

sql_clean(sql) == strip(upper(StripComments(sql)))

forbidden_keywords ==
    << "INSERT", "UPDATE", "DELETE", "DROP", "CREATE", "ALTER", "TRUNCATE",
       "GRANT", "REVOKE", "EXEC", "EXECUTE", "CALL", "MERGE", "REPLACE", "INTO" >>

\* (mutant) the search without the word boundaries
re_search_substring(keyword, s) == \E i \in 1..Len(s) : s[i] = keyword

\* re.search(r'\b' + keyword + r'\b', s)
re_search_word(keyword, s) ==
    \E i \in 1..Len(s) :
        /\ s[i] = keyword
        /\ (i = 1 \/ ~IsWordChar(s[i - 1]))
        /\ (i = Len(s) \/ ~IsWordChar(s[i + 1]))

\* (mutant) the loop reporting the last keyword of the list that is found
RECURSIVE ForbiddenLoop_LastOfList(_, _)
ForbiddenLoop_LastOfList(clean, k) ==
    IF k > Len(forbidden_keywords) THEN 0
    ELSE IF ForbiddenLoop_LastOfList(clean, k + 1) # 0
         THEN ForbiddenLoop_LastOfList(clean, k + 1)
    ELSE IF re_search_word(forbidden_keywords[k], clean) THEN k
    ELSE 0

\* the for loop over forbidden_keywords from index k: the index of the first
\* keyword of the list that is found, 0 when the loop ends without a return
RECURSIVE ForbiddenLoop(_, _)
ForbiddenLoop(clean, k) ==
    IF k > Len(forbidden_keywords) THEN 0
    ELSE IF re_search_word(forbidden_keywords[k], clean) THEN k
    ELSE ForbiddenLoop(clean, k + 1)

MsgOnlySelect == <<"Only SELECT statements are allowed">>

MsgForbidden(keyword) == <<"Forbidden operation detected: ", keyword>>

\* (mutant) validate_sql without the startswith('SELECT') test
validate_sql_NoSelectTest(sql) ==
    LET k == ForbiddenLoop(sql_clean(sql), 1)
    IN  IF k # 0
        THEN [is_valid |-> FALSE, error_msg |-> MsgForbidden(forbidden_keywords[k])]
        ELSE [is_valid |-> TRUE, error_msg |-> NONE]

\* (mutant) validate_sql asking for SELECT as a whole word at the start
validate_sql_SelectWord(sql) ==
    LET clean == sql_clean(sql)
        k == ForbiddenLoop(clean, 1)
    IN  IF ~(startswith(clean, "SELECT") /\ (Len(clean) = 1 \/ ~IsWordChar(clean[2])))
        THEN [is_valid |-> FALSE, error_msg |-> MsgOnlySelect]
        ELSE IF k # 0
        THEN [is_valid |-> FALSE, error_msg |-> MsgForbidden(forbidden_keywords[k])]
        ELSE [is_valid |-> TRUE, error_msg |-> NONE]

validate_sql(sql) ==
    LET clean == sql_clean(sql)
        k == ForbiddenLoop(clean, 1)
    IN  IF ~startswith(clean, "SELECT")
        THEN [is_valid |-> FALSE, error_msg |-> MsgOnlySelect]
        ELSE IF k # 0
        THEN [is_valid |-> FALSE, error_msg |-> MsgForbidden(forbidden_keywords[k])]
        ELSE [is_valid |-> TRUE, error_msg |-> NONE]

\* validate_sql has not returned yet
NotCalled == [is_valid |-> FALSE, error_msg |-> <<"<not called>">>]

-----------------------------------------------------------------------------
(* database/connection.py: DatabaseConnection.connect, execute_query,      *)
(* execute_query_to_dataframe, close.  A connection or cursor is "None",   *)
(* "open" or "closed"; an outcome is what the driver does with a statement *)
(* it is handed.                                                           *)

EngineError == "<engine error>"

NoRows == <<>>

OneRow == <<"row">>

DriverOutcomes == { "rows", "empty", "raise" }

NewConnection == [connection |-> "None", cursor |-> "None"]

\* DatabaseConnection.connect: how pyodbc.connect and connection.cursor() end
connect(self, how) ==
    CASE how = "ok" -> [connection |-> "open", cursor |-> "open"]
      [] how = "no cursor" -> [connection |-> "open", cursor |-> self.cursor]
      [] OTHER -> self

\* DatabaseConnection.close
close(self) ==
    [connection |-> IF self.connection = "None" THEN "None" ELSE "closed",
     cursor |-> IF self.cursor = "None" THEN "None" ELSE "closed"]

\* what the driver returns for a statement: rows, or NONE when it raises
DriverRows(handle, outcome) ==
    IF handle # "open" \/ outcome = "raise" THEN NONE
    ELSE IF outcome = "rows" THEN OneRow ELSE NoRows

MsgNotEstablished == <<"Database connection not established">>

\* the (results, error_message) a call returns, and the statements it handed
\* to the driver
Returned(rows, error_msg, handed) ==
    [rows |-> rows, error_msg |-> error_msg, handed |-> handed]

\* the part of execute_query after validate_sql returned v; rows is what
\* cursor.execute and fetchall give
ExecuteValidated(self, sql, v, rows) ==
    IF ~v.is_valid
    THEN Returned(NONE, <<"SQL Validation Error: ">> \o v.error_msg, {})
    ELSE IF self.connection = "None" \/ self.cursor = "None"
    THEN Returned(NONE, MsgNotEstablished, {})
    ELSE IF rows = NONE
    THEN Returned(NONE, <<"Database query error: ", EngineError>>, {sql})
    ELSE Returned(rows, NONE, {sql})

\* DatabaseConnection.execute_query
execute_query(self, sql, outcome) ==
    ExecuteValidated(self, sql, validate_sql(sql), DriverRows(self.cursor, outcome))

\* the part of execute_query_to_dataframe after validate_sql returned v; rows
\* is what pd.read_sql gives
ReadValidated(self, sql, v, rows) ==
    IF ~v.is_valid
    THEN Returned(NONE, <<"SQL Validation Error: ">> \o v.error_msg, {})
    ELSE IF self.connection = "None"
    THEN Returned(NONE, MsgNotEstablished, {})
    ELSE IF rows = NONE
    THEN Returned(NONE, <<"Error executing query to DataFrame: ", EngineError>>, {sql})
    ELSE Returned(rows, NONE, {sql})

\* (mutant) execute_query_to_dataframe without the validation
execute_query_to_dataframe_NoValidation(self, sql, outcome) ==
    ReadValidated(self, sql, [is_valid |-> TRUE, error_msg |-> NONE],
                  DriverRows(self.connection, outcome))

\* DatabaseConnection.execute_query_to_dataframe
execute_query_to_dataframe(self, sql, outcome) ==
    ReadValidated(self, sql, validate_sql(sql), DriverRows(self.connection, outcome))

-----------------------------------------------------------------------------
(* utils/json_loader.py: MeasureJSONLoader.                                *)
(* A dict is a set of <<key, value>> pairs with one pair per key.          *)

Has(d, k) == \E e \in d : e[1] = k

Get(d, k) == (CHOOSE e \in d : e[1] = k)[2]

\* (mutant) d.setdefault(k, v): the first writer of a key wins
Put_KeepFirst(d, k, v) == IF Has(d, k) THEN d ELSE d \cup { <<k, v>> }

\* d[k] = v
Put(d, k, v) == { e \in d : e[1] # k } \cup { <<k, v>> }

FileIds == {"a.json", "b.json"}

NoFile == "<None>"

\* what a file of the directory holds
Absent == [kind |-> "absent", measure_code |-> <<>>, measure_name |-> <<>>, aliases |-> <<>>]

Malformed == [kind |-> "malformed", measure_code |-> <<>>, measure_name |-> <<>>, aliases |-> <<>>]

\* the file parses, but not to an object (a list, a text, a number)
NotAnObject == [kind |-> "list", measure_code |-> <<>>, measure_name |-> <<>>, aliases |-> <<>>]

Config(code, name, aliases) ==
    [kind |-> "dict", measure_code |-> code, measure_name |-> name, aliases |-> aliases]

\* json.load gave nothing: load_measure_config returns None
NoConfig == [kind |-> "none", measure_code |-> <<>>, measure_name |-> <<>>, aliases |-> <<>>]

\* bool(config) of what load_measure_config returned
TruthyConfig(config) ==
    /\ config.kind = "dict"
    /\ (config.measure_code # <<>> \/ config.measure_name # <<>> \/ config.aliases # <<>>)

\* what the persisted index file holds
NoIndexFile == [kind |-> "absent", data |-> {}]

CorruptIndexFile == [kind |-> "corrupt", data |-> {}]

IndexFileOf(d) == [kind |-> "dict", data |-> d]

\* the file parses, but not to a mapping (a list, a number, null)
NotAMapping == [kind |-> "list", data |-> {}]

\* a value of the persisted mapping that is not a string (a nested mapping)
Nested == "<dict>"

\* MeasureJSONLoader._load_index
_load_index(file) ==
    IF file.kind = "dict"
    THEN { e \in file.data : ~startswith(e[1], "_") }
    ELSE {}

\* MeasureJSONLoader.save_index: the file after json.dump(self.index)
save_index(idx) == IndexFileOf(idx)

\* MeasureJSONLoader.load_measure_config
load_measure_config(dir, json_filename) ==
    IF json_filename \notin DOMAIN dir \/ dir[json_filename].kind = "absent" THEN NoConfig
    ELSE IF dir[json_filename].kind = "malformed" THEN NoConfig
    ELSE dir[json_filename]

\* for alias in aliases: self.index[alias.lower()] = json_file.name
RECURSIVE AddAliases(_, _, _)
AddAliases(idx, aliases, f) ==
    IF aliases = <<>> THEN idx
    ELSE AddAliases(Put(idx, lower(Head(aliases)), f), Tail(aliases), f)

\* the keys one loaded config adds: measure_code, measure_name, aliases;
\* config.get of something that is not an object raises, and the except
\* clause of the loop goes on to the next file
IndexConfig(idx, config, f) ==
    IF config.kind = "list" THEN idx
    ELSE IF ~TruthyConfig(config) THEN idx
    ELSE AddAliases(
            IF config.measure_name # <<>>
            THEN Put(IF config.measure_code # <<>>
                     THEN Put(idx, lower(config.measure_code), f) ELSE idx,
                     lower(config.measure_name), f)
            ELSE IF config.measure_code # <<>>
                 THEN Put(idx, lower(config.measure_code), f) ELSE idx,
            config.aliases, f)

\* the body of the for loop of scan_measures_directory, for one file
ScanFile(idx, dir, f) == IndexConfig(idx, load_measure_config(dir, f), f)

\* (mutant) the loop given up at the first file that cannot be indexed
RECURSIVE ScanLoop_StopAtBadFile(_, _, _)
ScanLoop_StopAtBadFile(idx, dir, order) ==
    IF order = <<>> THEN idx
    ELSE IF ~TruthyConfig(load_measure_config(dir, Head(order))) THEN idx
    ELSE ScanLoop_StopAtBadFile(ScanFile(idx, dir, Head(order)), dir, Tail(order))

\* the for loop over glob("*.json"), the files coming in the order given
RECURSIVE ScanLoop(_, _, _)
ScanLoop(idx, dir, order) ==
    IF order = <<>> THEN idx
    ELSE ScanLoop(ScanFile(idx, dir, Head(order)), dir, Tail(order))

\* MeasureJSONLoader.scan_measures_directory: the rebuilt index (also saved)
scan_measures_directory(dir, order) == ScanLoop({}, dir, order)

\* the orders in which glob may list the files of the directory
FilesIn(dir) == { f \in DOMAIN dir : dir[f].kind # "absent" }

GlobOrders(dir) ==
    { o \in [1..Cardinality(FilesIn(dir)) -> FilesIn(dir)] :
        \A i, j \in DOMAIN o : i # j => o[i] # o[j] }

\* search_term = measure_name.lower().strip()
search_term(measure_name) == strip(lower(measure_name))

\* what a find_measure_json call returns: the result, the loader's index and
\* the index file after the call, and the number of scans the call made
Found(result, idx, file, scans) ==
    [result |-> result, index |-> idx, file |-> file, scans |-> scans]

\* (mutant) a rescan after which the index is not consulted again
FindAfterScan_NoSecondLook(term, rebuilt) ==
    Found(NoFile, rebuilt, save_index(rebuilt), 1)

\* the second look, after the rescan
FindAfterScan(term, rebuilt) ==
    Found(IF Has(rebuilt, term) THEN Get(rebuilt, term) ELSE NoFile,
          rebuilt, save_index(rebuilt), 1)

\* find_measure_json for a search term; rebuilt is the index a scan gives
FindTerm(idx, file, term, rebuilt) ==
    IF Has(idx, term) THEN Found(Get(idx, term), idx, file, 0)
    ELSE FindAfterScan(term, rebuilt)

\* (mutant) find_measure_json that gives up on a miss without scanning
find_measure_json_NoRescan(idx, file, dir, measure_name, order) ==
    FindTerm(idx, file, search_term(measure_name), idx)

\* MeasureJSONLoader.find_measure_json
find_measure_json(idx, file, dir, measure_name, order) ==
    FindTerm(idx, file, search_term(measure_name), scan_measures_directory(dir, order))

\* MeasureJSONLoader.update_measure_index: the index afterwards (also saved)
update_measure_index(idx, measure_code, aliases, filename) ==
    AddAliases(Put(idx, lower(measure_code), filename), aliases, filename)

-----------------------------------------------------------------------------
(* agent/nodes.py: the stage functions.  A reply is what the language      *)
(* oracle does when invoked: it raises, or it returns a text; the text of  *)
(* the Interpret reply is given by what json.loads makes of it.            *)

OracleError == "<oracle error>"

JsonError == "<JSONDecodeError>"

\* three backquotes, the fence of a markdown code block
Fence == "<fence>"

Raises == [kind |-> "raise", text |-> <<>>, measures |-> <<>>]

NotJson == [kind |-> "malformed", text |-> <<>>, measures |-> <<>>]

JsonObject(measures) == [kind |-> "object", text |-> <<>>, measures |-> measures]

Text(s) == [kind |-> "text", text |-> s, measures |-> <<>>]

\* an element of a list that is not a str (a number, a mapping)
NotAStr == <<"<not a str>">>

\* sep.join(names) raises TypeError: an element is not a str
JoinRaises(names) == \E i \in 1..Len(names) : names[i] = NotAStr

\* sep.join(names)
RECURSIVE Join(_, _)
Join(names, sep) ==
    IF names = <<>> THEN <<>>
    ELSE IF Len(names) = 1 THEN names[1]
    ELSE names[1] \o sep \o Join(Tail(names), sep)

\* the first position from i on that holds a fence, Len(s) + 1 if none does
RECURSIVE FirstFence(_, _)
FirstFence(s, i) ==
    IF i > Len(s) \/ s[i] = Fence THEN i ELSE FirstFence(s, i + 1)

\* the first position from i on where a fence followed by "sql" starts,
\* Len(s) + 1 if nowhere
RECURSIVE FirstSqlFence(_, _)
FirstSqlFence(s, i) ==
    IF i > Len(s) THEN i
    ELSE IF s[i] = Fence /\ i < Len(s) /\ s[i + 1] = "sql" THEN i
    ELSE FirstSqlFence(s, i + 1)

\* sql.split(fence + "sql")[1].split(fence)[0].strip(), or the same with the
\* fence alone
StripFences(sql) ==
    LET q == FirstSqlFence(sql, 1)
        f == FirstFence(sql, 1)
    IN  IF q <= Len(sql)
        THEN strip(SubSeq(sql, q + 2, FirstFence(sql, q + 2) - 1))
        ELSE IF f <= Len(sql)
        THEN strip(SubSeq(sql, f + 1, FirstFence(sql, f + 1) - 1))
        ELSE sql

\* the state dict a caller builds (gui/app.py submit_query builds the same)
InitialState(query, review, confirmed_query, confirmed_sql) ==
    [user_query |-> query,
     sql_review_enabled |-> review,
     identified_measures |-> <<>>,
     rewritten_query |-> <<>>,
     user_confirmed_query |-> confirmed_query,
     measure_configs |-> {},
     generated_sql |-> <<>>,
     user_confirmed_sql |-> confirmed_sql,
     execution_results |-> NONE,
     error |-> NONE]

input_node(state) == state

identify_measures_node(state, reply) ==
    CASE reply.kind = "raise" ->
            [state EXCEPT !.error = <<"Error identifying measures: ", OracleError>>]
      [] reply.kind = "malformed" ->
            [state EXCEPT !.error = <<"Failed to parse measure identification: ", JsonError>>]
      [] OTHER ->
            [state EXCEPT !.identified_measures = reply.measures]

rewrite_query_node(state, reply) ==
    IF reply.kind = "raise"
    THEN [state EXCEPT !.error = <<"Error rewriting query: ", OracleError>>]
    ELSE [state EXCEPT !.rewritten_query = strip(reply.text)]

\* (mutant) human_review_node1 that always takes the rewritten query
human_review_node1_Overwrite(state) ==
    [state EXCEPT !.user_confirmed_query = state.rewritten_query]

human_review_node1(state) ==
    IF ~Truthy(state.user_confirmed_query)
    THEN [state EXCEPT !.user_confirmed_query = state.rewritten_query]
    ELSE state

\* the part of get_measure_config after find_measure_json returned r: the
\* config (NoConfig for None) and the loader afterwards
ConfigOf(r, dir) ==
    [config |-> IF r.result # NoFile THEN load_measure_config(dir, r.result)
                ELSE NoConfig,
     filename |-> r.result,
     index |-> r.index,
     file |-> r.file]

\* MeasureJSONLoader.get_measure_config, on a loader given by its index and
\* the index file
get_measure_config(loader, dir, measure_name, order) ==
    ConfigOf(find_measure_json(loader.index, loader.file, dir, measure_name, order), dir)

\* one round of the for loop of json_lookup_node after get_measure_config
\* returned r: the configs, not_found, the loader and the calls made so far
Looked(acc, measure, r, found) ==
    [configs |-> IF found THEN Put(acc.configs, measure, r.config) ELSE acc.configs,
     not_found |-> IF found THEN acc.not_found ELSE Append(acc.not_found, measure),
     log |-> Append(acc.log, [measure |-> measure, found |-> found, config |-> r.config,
                              filename |-> r.filename]),
     index |-> r.index,
     file |-> r.file]

LookedUp(acc, measure, r) == Looked(acc, measure, r, TruthyConfig(r.config))

LookupStep(acc, dir, measure, order) ==
    LookedUp(acc, measure,
             get_measure_config([index |-> acc.index, file |-> acc.file], dir,
                                measure, order))

\* for measure in measures
RECURSIVE LookupLoop(_, _, _, _)
LookupLoop(acc, dir, measures, order) ==
    IF measures = <<>> THEN acc
    ELSE LookupLoop(LookupStep(acc, dir, Head(measures), order), dir,
                    Tail(measures), order)

\* (mutant) the message naming the first unresolved measure only
MsgNotFound_FirstOnly(not_found) ==
    <<"Configuration not found for measure(s): ">> \o not_found[1]
        \o <<". Please upload the required JSON configuration files.">>

MsgNotFound(not_found) ==
    <<"Configuration not found for measure(s): ">> \o Join(not_found, <<",", " ">>)
        \o <<". Please upload the required JSON configuration files.">>

\* the end of json_lookup_node, after the for loop gave r
AfterLookups(state, r) ==
    [state |-> IF r.not_found # <<>>
               THEN [state EXCEPT !.error = MsgNotFound(r.not_found)]
               ELSE [state EXCEPT !.measure_configs = r.configs],
     file |-> r.file,
     log |-> r.log]

\* json_lookup_node: the state, the index file and the calls made
json_lookup_node(state, dir, file, order) ==
    AfterLookups(state,
                 LookupLoop([configs |-> {}, not_found |-> <<>>, log |-> <<>>,
                             index |-> _load_index(file), file |-> file],
                            dir, state.identified_measures, order))

\* (mutant) sql_generation_node that keeps the statement and ignores the
\* verdict of validate_sql
Generated_NoError(state, sql, v) ==
    [state EXCEPT !.generated_sql = sql]

\* the end of sql_generation_node, after validate_sql(sql) returned v
Generated(state, sql, v) ==
    IF v.is_valid
    THEN [state EXCEPT !.generated_sql = sql]
    ELSE [state EXCEPT !.generated_sql = sql,
                       !.error = <<"Generated SQL validation failed: ">> \o v.error_msg]

GeneratedSql(state, sql) == Generated(state, sql, validate_sql(sql))

sql_generation_node(state, reply) ==
    IF reply.kind = "raise"
    THEN [state EXCEPT !.error = <<"Error generating SQL: ", OracleError>>]
    ELSE GeneratedSql(state, StripFences(strip(reply.text)))

human_review_node2(state) ==
    IF state.sql_review_enabled /\ Truthy(state.user_confirmed_sql)
    THEN state
    ELSE [state EXCEPT !.user_confirmed_sql = state.generated_sql]

MsgNotConfigured ==
    <<"Database connection string not configured. Please set DB_CONNECTION_STRING in .env file or provide connection_string in state.">>

\* (mutant) execute_and_export_node that stores whatever came back and
\* never looks at the error message
Executed_IgnoresError(state, r) ==
    [state |-> [state EXCEPT !.execution_results = r.rows], handed |-> r.handed]

\* the end of execute_and_export_node, after execute_query_to_dataframe
\* returned r: the state and the statements handed to the driver
Executed(state, r) ==
    IF Truthy(r.error_msg)
    THEN [state |-> [state EXCEPT !.error = r.error_msg], handed |-> r.handed]
    ELSE [state |-> [state EXCEPT !.execution_results = r.rows], handed |-> r.handed]

execute_and_export_node(state, configured, how, outcome) ==
    IF ~configured
    THEN [state |-> [state EXCEPT !.error = MsgNotConfigured], handed |-> {}]
    ELSE Executed(state,
                  execute_query_to_dataframe(
                      connect(NewConnection, how),
                      IF Truthy(state.user_confirmed_sql)
                      THEN state.user_confirmed_sql ELSE state.generated_sql,
                      outcome))

-----------------------------------------------------------------------------
(* agent/graph.py: the routing functions of create_workflow *)

check_json_lookup_error(state) ==
    IF Truthy(state.error) THEN "END" ELSE "generate_sql"

check_sql_generation_error(state) ==
    IF Truthy(state.error) THEN "END" ELSE "execute"

NoApiCall == [sql |-> <<>>, rows |-> NONE, error_msg |-> NONE, called |-> FALSE]

\* no run and no connection (the validator or the loader is used on its own)
CoreIdle ==
    /\ ctx = InitialState(<<>>, TRUE, <<>>, NONE)
    /\ pc = "idle"
    /\ stage_log = <<>>
    /\ lookups = <<>>
    /\ db_env = FALSE
    /\ db = NewConnection
    /\ api_result = NoApiCall
    /\ sent = {}

\* SQLAgentGUI.__init__ and create_widgets: no run yet, the confirm and
\* export buttons disabled, the two text boxes empty and read-only
NewGui(review) ==
    [current_state |-> 0,
     submit_btn |-> TRUE,
     confirm_query_btn |-> FALSE,
     confirm_sql_btn |-> FALSE,
     export_btn |-> FALSE,
     rewritten_text |-> <<>>,
     rewritten_editable |-> FALSE,
     sql_text |-> <<>>,
     sql_editable |-> FALSE,
     sql_review_var |-> review,
     polling |-> TRUE]

\* no window (the validator, the loader or the core is used on its own)
GuiIdle ==
    /\ gui = NewGui(TRUE)
    /\ runs = <<>>
    /\ threads = <<>>
    /\ queue = <<>>
    /\ events = <<>>
    /\ imports_ok = TRUE

-----------------------------------------------------------------------------
(* The loader used on its own, while the directory changes from outside.   *)

MaxEnvChanges == 2

MaxCalls == 3

CfgCE == Config(<<"CE">>, <<"Exposure">>, << <<"ce", "_", "x">> >>)

CfgPD == Config(<<"PD", " ">>, <<>>, << <<"CE">>, <<"_", "pd">> >>)

FileContents == { CfgCE, CfgPD, Malformed, NotAnObject }

LookupNames == { <<"CE">>, <<" ", "pd">>, <<"Zz">>, <<"PD", " ">>, <<"_", "pd">> }

\* what the index file may hold when the program starts: unparsable text, a
\* list, a mapping with a comment key, a mapping whose value is a mapping
IndexFileContents ==
    { CorruptIndexFile, NotAMapping,
      IndexFileOf({ << <<"_", "c">>, "a.json" >>, << <<"exposure">>, "a.json" >> }),
      IndexFileOf({ << <<"ce">>, Nested >> }) }

\* the arguments callers give to update_measure_index
UpdateCodes == { <<"Zz">> }

UpdateAliases == { << <<"Exposure">> >> }

\* the record kept of the last call made on the loader: which operation, and
\* for find_measure_json the name asked for, whether its search term was in
\* the loader's index, whether that index was what a scan of the directory
\* gives, the scans made and the value returned; the directory and the index
\* file as they were when the call was made; for scan_measures_directory the
\* order in which glob listed the files; and whether the call repeats the
\* call before it
NoLookup ==
    [name |-> <<>>, hit |-> FALSE, scans |-> 0, result |-> NoFile,
     dir |-> [f \in FileIds |-> Absent], called |-> FALSE,
     op |-> "none", fresh |-> FALSE, file |-> NoIndexFile,
     order |-> <<>>, again |-> FALSE]

LoaderCall(op, dir, file) == [NoLookup EXCEPT !.op = op, !.dir = dir, !.file = file]

\* the call now made is the call made last, on the same directory (and, for
\* a scan, with glob listing the files in the same order)
Again(op, name, order) ==
    /\ lookup.op = op
    /\ lookup.name = name
    /\ lookup.dir = measures_dir
    /\ lookup.order = order

\* idx is what scan_measures_directory has just built from dir
Fresh(idx, dir) == \E o \in GlobOrders(dir) : idx = scan_measures_directory(dir, o)

\* nothing of the index is in use (the validator is called on its own)
IndexIdle ==
    /\ measures_dir = [f \in FileIds |-> Absent]
    /\ index_file = NoIndexFile
    /\ index = {}
    /\ lookup = NoLookup
    /\ env_changes = 0
    /\ calls = 0

InitIndex ==
    /\ measures_dir = [f \in FileIds |-> Absent]
    /\ index_file \in {NoIndexFile} \cup IndexFileContents
    /\ index = {}
    /\ lookup = NoLookup
    /\ env_changes = 0
    /\ calls = 0
    /\ CoreIdle
    /\ GuiIdle
    /\ sql_in = <<>>
    /\ validation = NotCalled

\* a configuration file is written into the directory by someone else
EnvWriteFile ==
    /\ env_changes < MaxEnvChanges
    /\ \E f \in FileIds, c \in FileContents :
          /\ measures_dir[f] # c
          /\ measures_dir' = [measures_dir EXCEPT ![f] = c]
    /\ env_changes' = env_changes + 1
    /\ UNCHANGED <<guiVars, index_file, index, lookup, calls, sqlVars, coreVars>>

\* a configuration file is deleted by someone else
EnvRemoveFile ==
    /\ env_changes < MaxEnvChanges
    /\ \E f \in FilesIn(measures_dir) :
          measures_dir' = [measures_dir EXCEPT ![f] = Absent]
    /\ env_changes' = env_changes + 1
    /\ UNCHANGED <<guiVars, index_file, index, lookup, calls, sqlVars, coreVars>>

\* MeasureJSONLoader(...): a new loader reads the index file
NewLoader ==
    /\ calls < MaxCalls
    /\ index' = _load_index(index_file)
    /\ lookup' = LoaderCall("new", measures_dir, index_file)
    /\ calls' = calls + 1
    /\ UNCHANGED <<guiVars, measures_dir, index_file, env_changes, sqlVars, coreVars>>

\* loader.scan_measures_directory()
ScanMeasuresDirectory ==
    /\ calls < MaxCalls
    /\ \E order \in GlobOrders(measures_dir) :
          /\ index' = scan_measures_directory(measures_dir, order)
          /\ index_file' = save_index(index')
          /\ lookup' = [LoaderCall("scan", measures_dir, index_file) EXCEPT
                          !.order = order, !.again = Again("scan", <<>>, order)]
    /\ calls' = calls + 1
    /\ UNCHANGED <<guiVars, measures_dir, env_changes, sqlVars, coreVars>>

\* find_measure_json(name) returns r
FindReturns(name, r) ==
    /\ index' = r.index
    /\ index_file' = r.file
    /\ lookup' = [name |-> name, hit |-> Has(index, search_term(name)),
                  scans |-> r.scans, result |-> r.result,
                  dir |-> measures_dir, called |-> TRUE,
                  op |-> "find", fresh |-> Fresh(index, measures_dir),
                  file |-> index_file,
                  order |-> <<>>, again |-> Again("find", name, <<>>)]

\* loader.find_measure_json(name)
FindMeasureJson ==
    /\ calls < MaxCalls
    /\ \E name \in LookupNames, order \in GlobOrders(measures_dir) :
          FindReturns(name, find_measure_json(index, index_file, measures_dir, name, order))
    /\ calls' = calls + 1
    /\ UNCHANGED <<guiVars, measures_dir, env_changes, sqlVars, coreVars>>

\* loader.update_measure_index(measure_code, aliases, filename)
UpdateMeasureIndex ==
    /\ calls < MaxCalls
    /\ \E code \in UpdateCodes, aliases \in UpdateAliases, filename \in FileIds :
          /\ index' = update_measure_index(index, code, aliases, filename)
          /\ index_file' = save_index(index')
    /\ lookup' = LoaderCall("update", measures_dir, index_file)
    /\ calls' = calls + 1
    /\ UNCHANGED <<guiVars, measures_dir, env_changes, sqlVars, coreVars>>

NextIndex ==
    \/ EnvWriteFile
    \/ EnvRemoveFile
    \/ NewLoader
    \/ ScanMeasuresDirectory
    \/ FindMeasureJson
    \/ UpdateMeasureIndex

SpecIndex == InitIndex /\ [][NextIndex]_vars

-----------------------------------------------------------------------------
(* The core used by a caller: either run_workflow(initial_state), the      *)
(* compiled graph invoking one node per step, or a DatabaseConnection      *)
(* used directly.                                                          *)

MaxApiCalls == 3

Nodes ==
    { "input", "identify", "rewrite", "review1", "json_lookup", "generate_sql",
      "review2", "execute" }

MeasureLists ==
    { <<>>, << <<"CE">> >>, << <<"CE">>, <<"ce">> >>, << <<"CE">>, <<"Zz">> >>,
      << <<"Zz">>, <<"CE">>, <<" ", "pd">> >> }

InterpretReplies == { Raises, NotJson } \cup { JsonObject(ms) : ms \in MeasureLists }

RewriteReplies == { Raises, Text(<<"rq", " ">>), Text(<<>>) }

SqlReplies ==
    { Raises, Text(<<"SELECT">>), Text(<<"insert">>),
      Text(<<"SELECT", " ", "INTO">>),
      Text(<<Fence, "sql", NL, "SELECT", "_", NL, Fence>>) }

\* what a person may have confirmed in the state before the run
ReviewedQueries == { <<>>, <<"my", " ", "rq">> }

ReviewedSql == { NONE, <<>>, <<"insert">>, <<"SELECT", "_", "_">> }

\* statements a caller passes to a DatabaseConnection
ApiSql == { <<"SELECT">>, <<"insert">>, <<"SELECT", " ", "INTO">>, <<"-", "-", "SELECT">>, <<>> }

ConnectOutcomes == { "ok", "no cursor", "fail" }

DirOf(a, b) == [f \in FileIds |-> IF f = "a.json" THEN a ELSE b]

CoreDirs == { DirOf(Absent, Absent), DirOf(CfgCE, Absent), DirOf(CfgCE, CfgPD), DirOf(Malformed, CfgPD) }

CoreIndexFiles ==
    { NoIndexFile, CorruptIndexFile,
      save_index(scan_measures_directory(DirOf(CfgCE, Absent), <<"a.json">>)),
      save_index(scan_measures_directory(DirOf(CfgPD, Absent), <<"a.json">>)) }

InitCore ==
    /\ GuiIdle
    /\ sql_in = <<>>
    /\ validation = NotCalled
    /\ index = {}
    /\ lookup = NoLookup
    /\ env_changes = 0
    /\ calls = 0
    /\ stage_log = <<>>
    /\ lookups = <<>>
    /\ db = NewConnection
    /\ api_result = NoApiCall
    /\ sent = {}
    /\ \/ /\ pc = "input"
          /\ ctx \in { InitialState(<<"q">>, review, cq, cs) :
                         review \in BOOLEAN, cq \in ReviewedQueries, cs \in ReviewedSql }
          /\ measures_dir \in CoreDirs
          /\ index_file \in CoreIndexFiles
          /\ db_env \in BOOLEAN
       \/ /\ pc = "api"
          /\ ctx = InitialState(<<>>, TRUE, <<>>, NONE)
          /\ measures_dir = DirOf(Absent, Absent)
          /\ index_file = NoIndexFile
          /\ db_env = TRUE

\* the graph invokes node n on the state
Invoked(n) ==
    /\ pc = n
    /\ stage_log' = Append(stage_log, [stage |-> n, error |-> Truthy(ctx.error),
                                       before |-> ctx])

InputNode ==
    /\ Invoked("input")
    /\ ctx' = input_node(ctx)
    /\ pc' = "identify"
    /\ UNCHANGED <<guiVars, lookups, db_env, db, api_result, sent, sqlVars, indexVars>>

IdentifyMeasuresNode ==
    /\ Invoked("identify")
    /\ \E reply \in InterpretReplies : ctx' = identify_measures_node(ctx, reply)
    /\ pc' = "rewrite"
    /\ UNCHANGED <<guiVars, lookups, db_env, db, api_result, sent, sqlVars, indexVars>>

RewriteQueryNode ==
    /\ Invoked("rewrite")
    /\ \E reply \in RewriteReplies : ctx' = rewrite_query_node(ctx, reply)
    /\ pc' = "review1"
    /\ UNCHANGED <<guiVars, lookups, db_env, db, api_result, sent, sqlVars, indexVars>>

HumanReviewNode1 ==
    /\ Invoked("review1")
    /\ ctx' = human_review_node1(ctx)
    /\ pc' = "json_lookup"
    /\ UNCHANGED <<guiVars, lookups, db_env, db, api_result, sent, sqlVars, indexVars>>

\* json_lookup_node returns r; the conditional edge follows
JsonLookupReturns(r) ==
    /\ ctx' = r.state
    /\ index_file' = r.file
    /\ lookups' = r.log
    /\ pc' = check_json_lookup_error(r.state)

JsonLookupNode ==
    /\ Invoked("json_lookup")
    /\ \E order \in GlobOrders(measures_dir) :
          JsonLookupReturns(json_lookup_node(ctx, measures_dir, index_file, order))
    /\ UNCHANGED <<guiVars, db_env, db, api_result, sent, sqlVars, measures_dir, index,
                   lookup, env_changes, calls>>

SqlGenerationNode ==
    /\ Invoked("generate_sql")
    /\ \E reply \in SqlReplies : ctx' = sql_generation_node(ctx, reply)
    /\ pc' = "review2"
    /\ UNCHANGED <<guiVars, lookups, db_env, db, api_result, sent, sqlVars, indexVars>>

HumanReviewNode2 ==
    /\ Invoked("review2")
    /\ ctx' = human_review_node2(ctx)
    /\ pc' = check_sql_generation_error(ctx')
    /\ UNCHANGED <<guiVars, lookups, db_env, db, api_result, sent, sqlVars, indexVars>>

\* execute_and_export_node returns r
ExecuteReturns(r) ==
    /\ ctx' = r.state
    /\ sent' = sent \cup r.handed

\* the DatabaseConnection of the with block of execute_and_export_node once
\* the block is left: connect() on entry, close() on exit; none is made when
\* no connection string is configured
WithConnection(configured, how) ==
    IF configured THEN close(connect(NewConnection, how)) ELSE NewConnection

ExecuteAndExportNode ==
    /\ Invoked("execute")
    /\ \E how \in ConnectOutcomes, outcome \in DriverOutcomes :
          /\ ExecuteReturns(execute_and_export_node(ctx, db_env, how, outcome))
          /\ db' = WithConnection(db_env, how)
    /\ pc' = "END"
    /\ UNCHANGED <<guiVars, lookups, db_env, api_result, sqlVars, indexVars>>

\* db.connect()
ApiConnect ==
    /\ pc = "api" /\ calls < MaxApiCalls
    /\ \E how \in ConnectOutcomes : db' = connect(db, how)
    /\ calls' = calls + 1
    /\ UNCHANGED <<guiVars, ctx, pc, stage_log, lookups, db_env, api_result, sent, sqlVars,
                   measures_dir, index_file, index, lookup, env_changes>>

\* a direct call with statement sql returns r
ApiReturns(sql, r) ==
    /\ api_result' = [sql |-> sql, rows |-> r.rows, error_msg |-> r.error_msg,
                      called |-> TRUE]
    /\ sent' = sent \cup r.handed

\* db.execute_query(sql)
ApiExecuteQuery ==
    /\ pc = "api" /\ calls < MaxApiCalls
    /\ \E sql \in ApiSql, outcome \in DriverOutcomes :
          ApiReturns(sql, execute_query(db, sql, outcome))
    /\ calls' = calls + 1
    /\ UNCHANGED <<guiVars, ctx, pc, stage_log, lookups, db_env, db, sqlVars,
                   measures_dir, index_file, index, lookup, env_changes>>

\* db.execute_query_to_dataframe(sql)
ApiExecuteQueryToDataframe ==
    /\ pc = "api" /\ calls < MaxApiCalls
    /\ \E sql \in ApiSql, outcome \in DriverOutcomes :
          ApiReturns(sql, execute_query_to_dataframe(db, sql, outcome))
    /\ calls' = calls + 1
    /\ UNCHANGED <<guiVars, ctx, pc, stage_log, lookups, db_env, db, sqlVars,
                   measures_dir, index_file, index, lookup, env_changes>>

\* db.close()
ApiClose ==
    /\ pc = "api" /\ calls < MaxApiCalls
    /\ db' = close(db)
    /\ calls' = calls + 1
    /\ UNCHANGED <<guiVars, ctx, pc, stage_log, lookups, db_env, api_result, sent, sqlVars,
                   measures_dir, index_file, index, lookup, env_changes>>

NextCore ==
    \/ InputNode
    \/ IdentifyMeasuresNode
    \/ RewriteQueryNode
    \/ HumanReviewNode1
    \/ JsonLookupNode
    \/ SqlGenerationNode
    \/ HumanReviewNode2
    \/ ExecuteAndExportNode
    \/ ApiConnect
    \/ ApiExecuteQuery
    \/ ApiExecuteQueryToDataframe
    \/ ApiClose

SpecCore == InitCore /\ [][NextCore]_vars

-----------------------------------------------------------------------------
(* gui/app.py: SQLAgentGUI.  The Tk thread runs submit_query, check_queue  *)
(* and the confirm callbacks; worker threads run run_workflow_thread,      *)
(* continue_thread and execute_thread.  A state dict is one object shared  *)
(* by reference: runs[r] is the dict made by the r-th submit, and the      *)
(* GUI's current_state, a thread's state and the data of a message are     *)
(* the number r of that dict (0: the empty dict of __init__).              *)

MaxSubmits == 2

ImportErrorText == <<"attempted relative import beyond top-level package">>

UnboundLocalErrorText ==
    <<"cannot access local variable 'state' where it is not associated with a value">>

TypeErrorText == <<"sequence item 0: expected str instance, int found">>

\* a message of the queue: (msg_type, data), data being a dict or a text
Msg(type, run, text) == [type |-> type, run |-> run, text |-> text]

ErrorMsg(state) == Msg("error", 0, state.error)

\* threading.Thread(target=...): kind is the target, by the action that
\* started it; run = 0 while the target has not read its state yet
Thread(kind, run, at, by) == [kind |-> kind, run |-> run, pc |-> at, by |-> by]

\* what a worker does in one step: the dict afterwards, the messages it
\* puts, and where it goes on
WorkerResult(state, put, next) == [state |-> state, put |-> put, pc |-> next]

\* run_workflow_thread up to the call of simulate_workflow
run_workflow_thread(state, r, ok) ==
    IF ok THEN WorkerResult(state, <<>>, "input")
    ELSE WorkerResult(state, <<Msg("error", 0, ImportErrorText)>>, "done")

\* simulate_workflow, Node 1
SimInput(state, r) ==
    WorkerResult(input_node(state), <<Msg("status", 0, <<"Processing input...">>)>>,
                 "identify")

\* (mutant) simulate_workflow without the return after the 'error' message
Identified_NoReturn(state, r) ==
    IF Truthy(state.error)
    THEN WorkerResult(state, <<ErrorMsg(state), Msg("identified", r, <<>>)>>, "rewrite")
    ELSE WorkerResult(state, <<Msg("identified", r, <<>>)>>, "rewrite")

\* simulate_workflow, after identify_measures_node returned state
Identified(state, r) ==
    IF Truthy(state.error) THEN WorkerResult(state, <<ErrorMsg(state)>>, "done")
    ELSE WorkerResult(state, <<Msg("identified", r, <<>>)>>, "rewrite")

\* simulate_workflow, Node 2
SimIdentify(state, r, reply) == Identified(identify_measures_node(state, reply), r)

\* (mutant) simulate_workflow going on to the lookup without a confirmation
Rewritten_SkipGate(state, r) ==
    IF Truthy(state.error) THEN WorkerResult(state, <<ErrorMsg(state)>>, "done")
    ELSE WorkerResult(state, <<Msg("rewritten", r, <<>>)>>, "json_lookup")

\* simulate_workflow, after rewrite_query_node returned state
Rewritten(state, r) ==
    IF Truthy(state.error) THEN WorkerResult(state, <<ErrorMsg(state)>>, "done")
    ELSE WorkerResult(state, <<Msg("rewritten", r, <<>>)>>, "wait_confirm_query")

\* simulate_workflow, Node 3; rewrite_query_node joins the identified
\* measures before its try block, and simulate_workflow catches what that
\* raises
SimRewrite(state, r, reply) ==
    IF JoinRaises(state.identified_measures)
    THEN WorkerResult(state, <<Msg("error", 0, TypeErrorText)>>, "done")
    ELSE Rewritten(rewrite_query_node(state, reply), r)

\* (mutant) simulate_workflow carrying on in the same thread after the
\* waiting message
SimWaitConfirmQuery_SameThread(state, r) ==
    WorkerResult(state, <<Msg("wait_confirm_query", r, <<>>)>>, "json_lookup")

\* (mutant) simulate_workflow reporting an error after it has opened the
\* query gate, so that Submit is enabled while the gate is open
SimWaitConfirmQuery_ThenError(state, r) ==
    WorkerResult(state, <<Msg("wait_confirm_query", r, <<>>), Msg("error", 0, <<>>)>>,
                 "done")

\* simulate_workflow, Node 4: the waiting message, then the function returns
SimWaitConfirmQuery(state, r) ==
    WorkerResult(state, <<Msg("wait_confirm_query", r, <<>>)>>, "done")

\* continue_thread, after json_lookup_node returned state
LookedUpConfigs(state, r) ==
    IF Truthy(state.error) THEN WorkerResult(state, <<ErrorMsg(state)>>, "done")
    ELSE WorkerResult(state, <<Msg("status", 0, <<"Measure configurations loaded">>)>>,
                      "generate_sql")

\* continue_thread, after sql_generation_node returned state
SqlGenerated(state, r) ==
    IF Truthy(state.error) THEN WorkerResult(state, <<ErrorMsg(state)>>, "done")
    ELSE WorkerResult(state, <<Msg("sql_generated", r, <<>>)>>, "review_sql")

\* continue_thread, Node 6
ContinueGenerate(state, r, reply) == SqlGenerated(sql_generation_node(state, reply), r)

\* (mutant) continue_thread that looks at the checkbox as it is now, not at
\* the dict
ContinueReview_ReadsCheckbox(state, r) ==
    IF gui.sql_review_var
    THEN WorkerResult(state, <<Msg("wait_confirm_sql", r, <<>>)>>, "done")
    ELSE WorkerResult([state EXCEPT !.user_confirmed_sql = state.generated_sql],
                      <<>>, "spawn")

\* (mutant) continue_thread that starts Execute although it waits for the
\* confirmation of the SQL
ContinueReview_ExecutesAnyway(state, r) ==
    WorkerResult(state, <<Msg("wait_confirm_sql", r, <<>>)>>, "spawn")

\* continue_thread, Node 7: wait for the confirmation, or set the confirmed
\* SQL and call execute_workflow (pc "spawn": a new thread is started)
ContinueReview(state, r) ==
    IF state.sql_review_enabled
    THEN WorkerResult(state, <<Msg("wait_confirm_sql", r, <<>>)>>, "done")
    ELSE WorkerResult([state EXCEPT !.user_confirmed_sql = state.generated_sql],
                      <<>>, "spawn")

\* execute_thread: state is a local name of execute_thread, read before it
\* is bound, so the call of execute_and_export_node is never made
execute_thread(state, r) ==
    WorkerResult(state, <<Msg("error", 0, UnboundLocalErrorText)>>, "done")

\* clear_results
clear_results(g) ==
    [g EXCEPT !.rewritten_text = <<>>, !.rewritten_editable = FALSE,
              !.sql_text = <<>>, !.sql_editable = FALSE,
              !.export_btn = FALSE, !.confirm_query_btn = FALSE,
              !.confirm_sql_btn = FALSE]

\* display_results
display_results(g, results) ==
    IF ~Truthy(results) \/ results = NoRows THEN g
    ELSE [g EXCEPT !.export_btn = TRUE, !.submit_btn = TRUE]

\* the body of the while loop of check_queue, for one message
HandleMessage(g, rs, m) ==
    CASE m.type = "rewritten" ->
            [g EXCEPT !.rewritten_editable = TRUE,
                      !.rewritten_text = rs[m.run].rewritten_query,
                      !.current_state = m.run]
      [] m.type = "wait_confirm_query" ->
            [g EXCEPT !.confirm_query_btn = TRUE, !.rewritten_editable = TRUE]
      [] m.type = "sql_generated" ->
            [g EXCEPT !.sql_text = rs[m.run].generated_sql,
                      !.sql_editable = FALSE,
                      !.current_state = m.run]
      [] m.type = "wait_confirm_sql" ->
            [g EXCEPT !.sql_editable = TRUE, !.confirm_sql_btn = TRUE]
      [] m.type = "results" ->
            [display_results(g, rs[m.run].execution_results)
                EXCEPT !.current_state = m.run]
      [] m.type = "error" -> [g EXCEPT !.submit_btn = TRUE]
      [] OTHER -> g

\* the 'identified' branch of check_queue joins the identified measures of
\* the dict; what that raises leaves check_queue, which catches queue.Empty
\* only
HandlerRaises(rs, m) ==
    m.type = "identified" /\ JoinRaises(rs[m.run].identified_measures)

\* (mutant) check_queue taking the newest message first
RECURSIVE check_queue_NewestFirst(_, _, _)
check_queue_NewestFirst(g, rs, q) ==
    IF q = <<>> THEN g
    ELSE check_queue_NewestFirst(HandleMessage(g, rs, q[Len(q)]), rs,
                                 SubSeq(q, 1, Len(q) - 1))

\* check_queue: every message that is in the queue, in order, and then
\* root.after(100, self.check_queue); a handler that raises ends the call
\* before that line, and check_queue is not called again
RECURSIVE check_queue(_, _, _)
check_queue(g, rs, q) ==
    IF q = <<>> THEN g
    ELSE IF HandlerRaises(rs, Head(q)) THEN [g EXCEPT !.polling = FALSE]
    ELSE check_queue(HandleMessage(g, rs, Head(q)), rs, Tail(q))

\* the messages that check_queue leaves in the queue
RECURSIVE LeftInQueue(_, _)
LeftInQueue(rs, q) ==
    IF q = <<>> THEN <<>>
    ELSE IF HandlerRaises(rs, Head(q)) THEN Tail(q)
    ELSE LeftInQueue(rs, Tail(q))

\* widget.get("1.0", tk.END): the content and the newline Tk ends it with
TextGet(content) == content \o <<NL>>

-----------------------------------------------------------------------------
(* The window in use: one Tk thread and the workers it starts. *)

\* what the user types into the query box
GuiQueries == { <<" ", "q", " ">> }

GuiMeasureLists == { << <<"CE">> >>, << <<"Zz">> >> }

\* "measures" of the reply holding something that is not a str
GuiBadMeasureLists == { << NotAStr >> }

GuiInterpretReplies ==
    { Raises } \cup { JsonObject(ms) : ms \in GuiMeasureLists \cup GuiBadMeasureLists }

GuiRewriteReplies == { Raises, Text(<<"rq", " ">>) }

GuiSqlReplies == { Text(<<"SELECT">>), Text(<<"insert">>) }

\* what the user types into the rewritten-query box and into the SQL box
RewrittenEdits == { <<" ", "my", " ">> }

SqlEdits == { <<"SELECT", " ">> }

\* an entry of events: a stage run by a worker (state: the dict at entry), a
\* message put by a worker, or a click (text: the content of the box,
\* state: the dict after the callback wrote to it)
Ev(what, thread, run, text, state) ==
    [what |-> what, thread |-> thread, run |-> run, text |-> text, state |-> state]

NoState == [none |-> TRUE]

RECURSIVE PutEvents(_, _, _)
PutEvents(put, t, r) ==
    IF put = <<>> THEN <<>>
    ELSE <<Ev(Head(put).type, t, r, Head(put).text, NoState)>> \o PutEvents(Tail(put), t, r)

InitGui ==
    /\ sql_in = <<>>
    /\ validation = NotCalled
    /\ CoreIdle
    /\ measures_dir = DirOf(CfgCE, Absent)
    /\ index_file = NoIndexFile
    /\ index = {}
    /\ lookup = NoLookup
    /\ env_changes = 0
    /\ calls = 0
    /\ gui = NewGui(TRUE)
    /\ runs = <<>>
    /\ threads = <<>>
    /\ queue = <<>>
    /\ events = <<>>
    /\ imports_ok \in BOOLEAN

GuiFrame == UNCHANGED <<sqlVars, coreVars, measures_dir, index, lookup, env_changes, calls, imports_ok>>

\* the user ticks or unticks "Enable SQL Review"
ToggleSqlReview ==
    /\ gui' = [gui EXCEPT !.sql_review_var = ~gui.sql_review_var]
    /\ UNCHANGED <<runs, threads, queue, events, index_file>>
    /\ GuiFrame

\* submit_query with a query that is not blank
SubmitQuery ==
    /\ gui.submit_btn
    /\ Len(runs) < MaxSubmits
    /\ \E query \in GuiQueries :
          /\ strip(TextGet(query)) # <<>>
          /\ runs' = Append(runs, InitialState(strip(TextGet(query)), gui.sql_review_var,
                                               <<>>, NONE))
          /\ events' = Append(events, Ev("submit", 0, Len(runs) + 1, query,
                                         InitialState(strip(TextGet(query)),
                                                      gui.sql_review_var, <<>>, NONE)))
    /\ gui' = [clear_results(gui) EXCEPT !.submit_btn = FALSE,
                                         !.current_state = Len(runs) + 1]
    /\ threads' = Append(threads, Thread("workflow", Len(runs) + 1, "start", "submit"))
    /\ UNCHANGED <<queue, index_file>>
    /\ GuiFrame

\* thread t, working on dict r, runs stage (or "" for none) and gets res
WorkerStep(t, r, stage, res) ==
    /\ threads' = [threads EXCEPT ![t].pc = res.pc, ![t].run = r]
    /\ runs' = [runs EXCEPT ![r] = res.state]
    /\ queue' = queue \o res.put
    /\ events' = events
                    \o (IF stage = "" THEN <<>> ELSE <<Ev(stage, t, r, <<>>, runs[r])>>)
                    \o PutEvents(res.put, t, r)

\* the dict thread t works on: its own, or for continue_thread
\* self.current_state as it is when the thread reads it
StateOf(t) == IF threads[t].run = 0 THEN gui.current_state ELSE threads[t].run

At(t, pc_) == t \in DOMAIN threads /\ threads[t].pc = pc_ /\ StateOf(t) \in DOMAIN runs

WorkflowStart ==
    /\ \E t \in DOMAIN threads :
          /\ At(t, "start")
          /\ WorkerStep(t, StateOf(t), "",
                        run_workflow_thread(runs[StateOf(t)], StateOf(t), imports_ok))
    /\ UNCHANGED <<gui, index_file>>
    /\ GuiFrame

WorkflowInput ==
    /\ \E t \in DOMAIN threads :
          /\ At(t, "input")
          /\ WorkerStep(t, StateOf(t), "input", SimInput(runs[StateOf(t)], StateOf(t)))
    /\ UNCHANGED <<gui, index_file>>
    /\ GuiFrame

WorkflowIdentify ==
    /\ \E t \in DOMAIN threads, reply \in GuiInterpretReplies :
          /\ At(t, "identify")
          /\ WorkerStep(t, StateOf(t), "identify",
                        SimIdentify(runs[StateOf(t)], StateOf(t), reply))
    /\ UNCHANGED <<gui, index_file>>
    /\ GuiFrame

WorkflowRewrite ==
    /\ \E t \in DOMAIN threads, reply \in GuiRewriteReplies :
          /\ At(t, "rewrite")
          /\ WorkerStep(t, StateOf(t), "rewrite",
                        SimRewrite(runs[StateOf(t)], StateOf(t), reply))
    /\ UNCHANGED <<gui, index_file>>
    /\ GuiFrame

WorkflowWait ==
    /\ \E t \in DOMAIN threads :
          /\ At(t, "wait_confirm_query")
          /\ WorkerStep(t, StateOf(t), "",
                        SimWaitConfirmQuery(runs[StateOf(t)], StateOf(t)))
    /\ UNCHANGED <<gui, index_file>>
    /\ GuiFrame

\* json_lookup_node returned looked: the state and the index file
ContinueLookedUp(t, r, looked) ==
    /\ WorkerStep(t, r, "json_lookup", LookedUpConfigs(looked.state, r))
    /\ index_file' = looked.file

ContinueJsonLookup ==
    /\ \E t \in DOMAIN threads, order \in GlobOrders(measures_dir) :
          /\ At(t, "json_lookup")
          /\ ContinueLookedUp(t, StateOf(t),
                              json_lookup_node(runs[StateOf(t)], measures_dir,
                                               index_file, order))
    /\ UNCHANGED gui
    /\ GuiFrame

ContinueGenerateSql ==
    /\ \E t \in DOMAIN threads, reply \in GuiSqlReplies :
          /\ At(t, "generate_sql")
          /\ WorkerStep(t, StateOf(t), "generate_sql",
                        ContinueGenerate(runs[StateOf(t)], StateOf(t), reply))
    /\ UNCHANGED <<gui, index_file>>
    /\ GuiFrame

\* Node 7 gave res: when it called execute_workflow, the new thread
Reviewed(t, r, res) ==
    /\ runs' = [runs EXCEPT ![r] = res.state]
    /\ queue' = queue \o res.put
    /\ events' = events \o PutEvents(res.put, t, r)
    /\ threads' = IF res.pc = "spawn"
                  THEN Append([threads EXCEPT ![t].pc = "done"],
                              Thread("execute", r, "execute", "auto"))
                  ELSE [threads EXCEPT ![t].pc = res.pc]

ContinueReviewSql ==
    /\ \E t \in DOMAIN threads :
          /\ At(t, "review_sql")
          /\ Reviewed(t, StateOf(t), ContinueReview(runs[StateOf(t)], StateOf(t)))
    /\ UNCHANGED <<gui, index_file>>
    /\ GuiFrame

ExecuteThread ==
    /\ \E t \in DOMAIN threads :
          /\ At(t, "execute")
          /\ WorkerStep(t, StateOf(t), "", execute_thread(runs[StateOf(t)], StateOf(t)))
    /\ UNCHANGED <<gui, index_file>>
    /\ GuiFrame

\* root.after(100, self.check_queue) fires with messages in the queue
CheckQueue ==
    /\ gui.polling
    /\ queue # <<>>
    /\ gui' = check_queue(gui, runs, queue)
    /\ queue' = LeftInQueue(runs, queue)
    /\ UNCHANGED <<runs, threads, events, index_file>>
    /\ GuiFrame

\* the user types into the rewritten-query box
EditRewrittenText ==
    /\ gui.rewritten_editable
    /\ \E text \in RewrittenEdits :
          /\ gui.rewritten_text # text
          /\ gui' = [gui EXCEPT !.rewritten_text = text]
    /\ UNCHANGED <<runs, threads, queue, events, index_file>>
    /\ GuiFrame

\* the user types into the SQL box
EditSqlText ==
    /\ gui.sql_editable
    /\ \E text \in SqlEdits :
          /\ gui.sql_text # text
          /\ gui' = [gui EXCEPT !.sql_text = text]
    /\ UNCHANGED <<runs, threads, queue, events, index_file>>
    /\ GuiFrame

\* confirm_rewritten_query
ConfirmRewrittenQuery ==
    /\ gui.confirm_query_btn
    /\ gui.current_state \in DOMAIN runs
    /\ runs' = [runs EXCEPT ![gui.current_state].user_confirmed_query =
                                strip(TextGet(gui.rewritten_text))]
    /\ gui' = [gui EXCEPT !.confirm_query_btn = FALSE, !.rewritten_editable = FALSE]
    /\ threads' = Append(threads, Thread("continue", 0, "json_lookup", "confirm_query"))
    /\ events' = Append(events, Ev("confirm_query", 0, gui.current_state,
                                   gui.rewritten_text, runs'[gui.current_state]))
    /\ UNCHANGED <<queue, index_file>>
    /\ GuiFrame

\* confirm_and_execute_sql
ConfirmAndExecuteSql ==
    /\ gui.confirm_sql_btn
    /\ gui.current_state \in DOMAIN runs
    /\ runs' = [runs EXCEPT ![gui.current_state].user_confirmed_sql =
                                strip(TextGet(gui.sql_text))]
    /\ gui' = [gui EXCEPT !.confirm_sql_btn = FALSE, !.sql_editable = FALSE]
    /\ threads' = Append(threads, Thread("execute", gui.current_state, "execute",
                                         "confirm_sql"))
    /\ events' = Append(events, Ev("confirm_sql", 0, gui.current_state,
                                   gui.sql_text, runs'[gui.current_state]))
    /\ UNCHANGED <<queue, index_file>>
    /\ GuiFrame

NextGui ==
    \/ ToggleSqlReview
    \/ SubmitQuery
    \/ WorkflowStart
    \/ WorkflowInput
    \/ WorkflowIdentify
    \/ WorkflowRewrite
    \/ WorkflowWait
    \/ ContinueJsonLookup
    \/ ContinueGenerateSql
    \/ ContinueReviewSql
    \/ ExecuteThread
    \/ CheckQueue
    \/ EditRewrittenText
    \/ EditSqlText
    \/ ConfirmRewrittenQuery
    \/ ConfirmAndExecuteSql

SpecGui == InitGui /\ [][NextGui]_vars

-----------------------------------------------------------------------------
(* Rescans of the index, step by step.  scan_measures_directory is run by  *)
(* upload_measure_json on the Tk thread and, after a miss, by              *)
(* json_lookup_node on a worker thread, each on a MeasureJSONLoader of its *)
(* own over the same directory and the same index file.  A scanner is the  *)
(* loader of one thread: where it is, and its in-memory index.             *)

MaxScanners == 3

UploadedFiles == { CfgPD, Malformed }

Scanner(kind, at, measure, idx) ==
    [kind |-> kind, pc |-> at, measure |-> measure, index |-> idx, found |-> NoFile]

\* (mutant) scan_measures_directory under a lock shared by all loaders
MayScan_Locked(ts, p) == \A q \in DOMAIN ts : q # p => ts[q].pc # "save"

\* scan_measures_directory and save_index take no lock: whether thread p
\* enters does not depend on where the other threads are
MayScan(ts, p) == TRUE

\* the threads that are inside scan_measures_directory: the index rebuilt,
\* save_index not yet done
InScan(ts) == { q \in DOMAIN ts : ts[q].pc = "save" }

Live(ts, kind) == { q \in DOMAIN ts : ts[q].kind = kind /\ ts[q].pc # "done" }

InitRescan ==
    /\ sql_in = <<>>
    /\ validation = NotCalled
    /\ CoreIdle
    /\ measures_dir = DirOf(CfgCE, Absent)
    /\ index_file \in { NoIndexFile,
                        save_index(scan_measures_directory(DirOf(CfgCE, Absent),
                                                           <<"a.json">>)) }
    /\ index = {}
    /\ lookup = NoLookup
    /\ env_changes = 0
    /\ calls = 0
    /\ gui = NewGui(TRUE)
    /\ runs = <<>>
    /\ threads = <<>>
    /\ queue = <<>>
    /\ events = <<>>
    /\ imports_ok \in BOOLEAN

RescanFrame ==
    UNCHANGED <<sqlVars, coreVars, index, lookup, env_changes, calls, gui, runs, queue,
                events, imports_ok>>

\* upload_measure_json up to the import: the chosen file is copied into the
\* measures directory.  The Tk thread runs one upload at a time.
UploadCopy ==
    /\ Len(threads) < MaxScanners
    /\ Live(threads, "upload") = {}
    /\ \E f \in FileIds, c \in UploadedFiles :
          measures_dir' = [measures_dir EXCEPT ![f] = c]
    /\ threads' = Append(threads, Scanner("upload", "import", <<>>, {}))
    /\ UNCHANGED index_file
    /\ RescanFrame

\* from ..utils.json_loader import scan_measures_directory: when it fails
\* the except clause shows the error and the upload ends without a rescan
UploadImport ==
    /\ \E p \in DOMAIN threads :
          /\ threads[p].kind = "upload" /\ threads[p].pc = "import"
          /\ threads' = [threads EXCEPT ![p].pc = IF imports_ok THEN "new" ELSE "done"]
    /\ UNCHANGED <<measures_dir, index_file>>
    /\ RescanFrame

\* continue_thread reaches json_lookup_node with one identified measure;
\* the window has one worker at a time
StartLookup ==
    /\ imports_ok
    /\ Len(threads) < MaxScanners
    /\ Live(threads, "lookup") = {}
    /\ \E ms \in GuiMeasureLists :
          threads' = Append(threads, Scanner("lookup", "new", ms[1], {}))
    /\ UNCHANGED <<measures_dir, index_file>>
    /\ RescanFrame

\* MeasureJSONLoader(...): _load_index.  The module-level
\* scan_measures_directory() of the upload scans next, a lookup searches
LoaderNew ==
    /\ \E p \in DOMAIN threads :
          /\ threads[p].pc = "new"
          /\ threads' = [threads EXCEPT
                ![p].index = _load_index(index_file),
                ![p].pc = IF threads[p].kind = "upload" THEN "scan" ELSE "find"]
    /\ UNCHANGED <<measures_dir, index_file>>
    /\ RescanFrame

\* find_measure_json before the rescan: a hit returns, a miss scans
FindInIndex ==
    /\ \E p \in DOMAIN threads :
          /\ threads[p].pc = "find"
          /\ threads' =
                IF Has(threads[p].index, search_term(threads[p].measure))
                THEN [threads EXCEPT
                        ![p].found = Get(threads[p].index,
                                         search_term(threads[p].measure)),
                        ![p].pc = "done"]
                ELSE [threads EXCEPT ![p].pc = "scan"]
    /\ UNCHANGED <<measures_dir, index_file>>
    /\ RescanFrame

\* scan_measures_directory up to save_index: the index is rebuilt from the
\* directory as it is now
ScanEnter(p) ==
    /\ p \in DOMAIN threads
    /\ threads[p].pc = "scan"
    /\ MayScan(threads, p)
    /\ \E order \in GlobOrders(measures_dir) :
          threads' = [threads EXCEPT
                ![p].index = scan_measures_directory(measures_dir, order),
                ![p].pc = "save"]
    /\ UNCHANGED <<measures_dir, index_file>>
    /\ RescanFrame

\* save_index at the end of scan_measures_directory, and for a lookup the
\* second search of find_measure_json
ScanSave(p) ==
    /\ p \in DOMAIN threads
    /\ threads[p].pc = "save"
    /\ index_file' = save_index(threads[p].index)
    /\ threads' = [threads EXCEPT
          ![p].found = IF /\ threads[p].kind = "lookup"
                          /\ Has(threads[p].index, search_term(threads[p].measure))
                       THEN Get(threads[p].index, search_term(threads[p].measure))
                       ELSE NoFile,
          ![p].pc = "done"]
    /\ UNCHANGED measures_dir
    /\ RescanFrame

ScanMeasuresDirectoryEnter == \E p \in DOMAIN threads : ScanEnter(p)

ScanMeasuresDirectorySave == \E p \in DOMAIN threads : ScanSave(p)

NextRescan ==
    \/ UploadCopy
    \/ UploadImport
    \/ StartLookup
    \/ LoaderNew
    \/ FindInIndex
    \/ ScanMeasuresDirectoryEnter
    \/ ScanMeasuresDirectorySave

SpecRescan == InitRescan /\ [][NextRescan]_vars

-----------------------------------------------------------------------------
(* The validator called on its own.  SpecSql: every input made of at most   *)
(* MaxPieces lexical pieces (keywords, an identifier character, a newline, *)
(* a quote, comment delimiters).  SpecSqlWords: every input made of at     *)
(* most MaxWords words and separators, without comments.                   *)

MaxPieces == 4

MaxWords == 5

Pieces ==
    { <<"SELECT">>, <<"insert">>, <<"INTO">>, <<"_">>, <<NL>>, <<"'">>,
      <<"-">>, <<"-", "-">>, <<"/", "*">>, <<"*", "/">> }

WordPieces == { <<"SELECT">>, <<"insert">>, <<"INTO">>, <<"_">>, <<NL>>, <<"'">> }

RECURSIVE Flatten(_)
Flatten(ps) == IF ps = <<>> THEN <<>> ELSE Head(ps) \o Flatten(Tail(ps))

\* the strings made of at most n pieces of P
Strings(P, n) == { Flatten(ps) : ps \in UNION { [1..k -> P] : k \in 0..n } }

InitSql ==
    /\ sql_in \in Strings(Pieces, MaxPieces)
    /\ validation = NotCalled
    /\ IndexIdle
    /\ CoreIdle
    /\ GuiIdle

InitSqlWords ==
    /\ sql_in \in Strings(WordPieces, MaxWords)
    /\ validation = NotCalled
    /\ IndexIdle
    /\ CoreIdle
    /\ GuiIdle

ValidateSql ==
    /\ validation = NotCalled
    /\ validation' = validate_sql(sql_in)
    /\ UNCHANGED <<guiVars, sql_in, indexVars, coreVars>>

NextSql == ValidateSql

SpecSql == InitSql /\ [][NextSql]_vars

SpecSqlWords == InitSqlWords /\ [][NextSql]_vars

-----------------------------------------------------------------------------
(* Properties of validate_sql.  The words of a text are stated here on     *)
(* their own, as maximal runs of word characters, not through re.search.   *)

KeywordSet == { forbidden_keywords[k] : k \in 1..Len(forbidden_keywords) }

Called == validation # NotCalled

Cleaned == sql_clean(sql_in)

\* <<a, b>>: positions a..b of s are a maximal run of word characters
WordRuns(s) ==
    { r \in (1..Len(s)) \X (1..Len(s)) :
        /\ r[1] <= r[2]
        /\ \A k \in r[1]..r[2] : IsWordChar(s[k])
        /\ (r[1] = 1 \/ ~IsWordChar(s[r[1] - 1]))
        /\ (r[2] = Len(s) \/ ~IsWordChar(s[r[2] + 1])) }

\* the positions of s at which a forbidden keyword stands as a whole word
WholeWordPositions(s) ==
    { i \in 1..Len(s) : s[i] \in KeywordSet /\ <<i, i>> \in WordRuns(s) }

WholeWordKeywords(s) == { s[i] : i \in WholeWordPositions(s) }

\* a forbidden keyword occurs in s, and every occurrence is part of a longer word
OnlyInsideIdentifiers(s) ==
    /\ \E i \in 1..Len(s) : s[i] \in KeywordSet
    /\ WholeWordPositions(s) = {}

IndexInList(keyword) == CHOOSE k \in 1..Len(forbidden_keywords) : forbidden_keywords[k] = keyword

Min(S) == CHOOSE x \in S : \A y \in S : x <= y

\* C4: a statement whose cleaned text (comments removed, uppercased, trimmed)
\* does not begin with SELECT is never valid.
C4_NonSelectRejected ==
    (Called /\ ~startswith(Cleaned, "SELECT")) => ~validation.is_valid

\* C4 witness: a rejected input that holds SELECT, but not at the start
C4_Witness ==
    /\ Called
    /\ Cleaned # <<>>
    /\ ~startswith(Cleaned, "SELECT")
    /\ \E i \in 2..Len(Cleaned) : Cleaned[i] = "SELECT"
    /\ ~validation.is_valid

\* C5 as claimed: every string that holds a forbidden keyword as a whole word is
\* rejected with a reason naming that keyword, and a SELECT statement that holds
\* forbidden keywords only inside longer identifiers is valid.
C5_Original ==
    Called =>
        /\ \A kw \in WholeWordKeywords(Cleaned) :
              ~validation.is_valid /\ validation.error_msg = MsgForbidden(kw)
        /\ (startswith(Cleaned, "SELECT") /\ OnlyInsideIdentifiers(Cleaned))
              => validation.is_valid

\* C5 as amended: a statement whose cleaned text begins with SELECT and holds
\* forbidden keywords as whole words is rejected with a reason naming one of
\* them; one that does not begin with SELECT is rejected with the only-SELECT
\* reason whatever it holds; a SELECT statement that holds forbidden keywords
\* only inside longer identifiers is valid.
C5_Amended ==
    Called =>
        /\ (startswith(Cleaned, "SELECT") /\ WholeWordKeywords(Cleaned) # {})
              => /\ ~validation.is_valid
                 /\ \E kw \in WholeWordKeywords(Cleaned) :
                        validation.error_msg = MsgForbidden(kw)
        /\ ~startswith(Cleaned, "SELECT")
              => ~validation.is_valid /\ validation.error_msg = MsgOnlySelect
        /\ (startswith(Cleaned, "SELECT") /\ OnlyInsideIdentifiers(Cleaned))
              => validation.is_valid /\ validation.error_msg = NONE

\* C5 witness: a SELECT statement with a keyword inside an identifier, accepted
C5_Witness ==
    /\ Called
    /\ startswith(Cleaned, "SELECT")
    /\ \E i \in 2..(Len(Cleaned) - 1) :
          Cleaned[i] = "_" /\ Cleaned[i + 1] = "INSERT" /\ ~IsWordChar(Cleaned[i - 1])
    /\ validation.is_valid

\* the positions of s that lie inside a quoted literal: after an odd number of
\* quotes, with a closing quote further on
InsideLiteral(s, i) ==
    /\ s[i] # "'"
    /\ Cardinality({ k \in 1..(i - 1) : s[k] = "'" }) % 2 = 1
    /\ \E k \in (i + 1)..Len(s) : s[k] = "'"

\* C6: a SELECT statement whose forbidden keywords all lie inside quoted string
\* literals is accepted.
C6_KeywordInLiteralAccepted ==
    ( /\ Called
      /\ startswith(Cleaned, "SELECT")
      /\ StripComments(sql_in) = sql_in
      /\ \E i \in 1..Len(Cleaned) : Cleaned[i] \in KeywordSet
      /\ \A i \in 1..Len(Cleaned) : Cleaned[i] \in KeywordSet => InsideLiteral(Cleaned, i) )
    => validation.is_valid

CommentFree(s) == \A k \in 1..Len(s) : s[k] \notin {"-", "/", "*"}

\* c is one block comment: "/*", a text without "*/", "*/"
IsBlockComment(c) ==
    /\ Len(c) >= 4
    /\ c[1] = "/" /\ c[2] = "*" /\ c[Len(c) - 1] = "*" /\ c[Len(c)] = "/"
    /\ \A k \in 3..(Len(c) - 3) : ~(c[k] = "*" /\ c[k + 1] = "/")

\* c is one line comment that runs to the end of its line: rest is what follows it
IsLineComment(c, rest) ==
    /\ Len(c) >= 2
    /\ c[1] = "-" /\ c[2] = "-"
    /\ \A k \in 1..Len(c) : c[k] # NL
    /\ (rest = <<>> \/ rest[1] = NL)

\* C7: stripping comments is idempotent, and a comment placed before, after or
\* inside a statement does not change the statement's validation result.
C7_CommentsDoNotMatter ==
    Called =>
        /\ StripComments(StripComments(sql_in)) = StripComments(sql_in)
        /\ \A i \in 0..Len(sql_in) : \A j \in i..Len(sql_in) :
              LET pre == SubSeq(sql_in, 1, i)
                  c == SubSeq(sql_in, i + 1, j)
                  post == SubSeq(sql_in, j + 1, Len(sql_in))
              IN  ( /\ CommentFree(pre) /\ CommentFree(post)
                    /\ (IsBlockComment(c) \/ IsLineComment(c, post)) )
                  => validation = validate_sql(pre \o post)

\* s is empty, only whitespace, or whitespace around one comment
EmptyLike(s) ==
    \/ strip(s) = <<>>
    \/ (IsBlockComment(strip(s)) /\ CommentFree(SubSeq(strip(s), 3, Len(strip(s)) - 2)))
    \/ IsLineComment(strip(s), <<>>)

\* C8: an empty, whitespace-only or comment-only statement is rejected, and its
\* outcome differs from the outcome of a non-empty statement that merely does
\* not begin with SELECT.
C8_EmptyDistinguished ==
    (Called /\ EmptyLike(sql_in)) =>
        /\ ~validation.is_valid
        /\ \A p \in Pieces :
              (sql_clean(p) # <<>> /\ ~startswith(sql_clean(p), "SELECT"))
                  => validation # validate_sql(p)

-----------------------------------------------------------------------------
(* Claims about the measure index *)

\* file f of directory dir declares a code, name or alias whose lower-cased
\* form is key
Declares(dir, f, key) ==
    /\ dir[f].kind = "dict"
    /\ \/ dir[f].measure_code # <<>> /\ lower(dir[f].measure_code) = key
       \/ dir[f].measure_name # <<>> /\ lower(dir[f].measure_name) = key
       \/ \E i \in 1..Len(dir[f].aliases) : lower(dir[f].aliases[i]) = key

Declaring(dir, key) == { f \in FileIds : Declares(dir, f, key) }

VariantOf(n, d) ==
    \E i \in 1..(Len(n) + 1), j \in 0..Len(n) :
        /\ lower(SubSeq(n, i, j)) = lower(d)
        /\ \A k \in DOMAIN n : (k < i \/ k > j) => IsSpace(n[k])

\* the texts file f of directory dir declares: measure_code, measure_name and
\* the aliases
DeclaredBy(dir, f) ==
    IF dir[f].kind # "dict" THEN {}
    ELSE { d \in {dir[f].measure_code, dir[f].measure_name} : d # <<>> }
            \cup { dir[f].aliases[i] : i \in 1..Len(dir[f].aliases) }

\* the files of dir that declare a text of which n is a variant
DeclaringVariant(dir, n) ==
    { f \in FileIds : \E d \in DeclaredBy(dir, f) : VariantOf(n, d) }

\* C11: round trip.  When the loader's index is what scan_measures_directory
\* builds from the directory, find_measure_json called with a code, name or
\* alias that a scanned file declares, in any letter case and with or
\* without surrounding whitespace, returns a file that declares it.
C11_RoundTrip ==
    lookup.called /\ lookup.fresh /\ DeclaringVariant(lookup.dir, lookup.name) # {}
        => lookup.result \in DeclaringVariant(lookup.dir, lookup.name)

\* key is the normalized form (lower case, no surrounding whitespace) of a
\* text that file f of dir declares
DeclaresNormalized(dir, f, key) ==
    /\ f \in FileIds
    /\ \E d \in DeclaredBy(dir, f) : search_term(d) = key

\* the last call made on the loader wrote the index file
SavedByLoader ==
    lookup.op \in {"scan", "update"} \/ (lookup.op = "find" /\ lookup.scans = 1)

\* C12: every key of the in-memory index, and of the persisted index file
\* once the loader has written it, is the normalized form of a code, name
\* or alias declared by a configuration file that is in the measures
\* directory now, and its value is that file.
C12_IndexOnlyDeclared ==
    /\ \A e \in index : DeclaresNormalized(measures_dir, e[2], e[1])
    /\ SavedByLoader
          => \A e \in index_file.data : DeclaresNormalized(measures_dir, e[2], e[1])

Reserved(key) == startswith(key, "_")

\* C13: a key that begins with the reserved prefix '_' is not in the index
\* file that a rebuild has written, and a lookup of such a key resolves to
\* nothing, whatever the configuration files declare.
C13_ReservedKeysUnused ==
    /\ lookup.op = "scan" /\ index_file = save_index(index)
          => \A e \in index_file.data : ~Reserved(e[1])
    /\ lookup.called /\ Reserved(search_term(lookup.name)) => lookup.result = NoFile

\* the index file holds a flat mapping: every value is a file name
FlatMapping(file) ==
    /\ file.kind = "dict"
    /\ \A e \in file.data : e[2] \in FileIds

\* C14: a loader constructed over an index file that is missing, unparsable
\* or not a flat mapping starts with an empty index, and what a later lookup
\* returns is a file name or None.
C14_BadIndexFileDegrades ==
    /\ lookup.op = "new" /\ ~FlatMapping(lookup.file) => index = {}
    /\ lookup.called => lookup.result \in FileIds \cup {NoFile}

-----------------------------------------------------------------------------
(* Claims about the pipeline and the data store *)

Valid(sql) == validate_sql(sql).is_valid

Ran(n) == \E i \in DOMAIN stage_log : stage_log[i].stage = n

\* C1: a statement is handed to the data store, by execute_query, by
\* execute_query_to_dataframe or by the Execute stage that calls it, only if
\* validate_sql finds that statement valid; a direct call with an invalid
\* statement returns an error and no rows; and a run whose confirmed SQL is
\* an invalid statement ends with error set, without rows, and without the
\* statement having been handed over.
C1_OnlyValidatedSqlIsSent ==
    /\ \A s \in sent : Valid(s)
    /\ api_result.called /\ ~Valid(api_result.sql)
          => api_result.rows = NONE /\ Truthy(api_result.error_msg)
    /\ pc = "END" /\ Truthy(ctx.user_confirmed_sql) /\ ~Valid(ctx.user_confirmed_sql)
          => /\ Truthy(ctx.error)
             /\ ctx.execution_results = NONE
             /\ ctx.user_confirmed_sql \notin sent

\* a person replaced a valid generated statement by an invalid one, the
\* Execute stage ran with a reachable data store, and refused it
C1_Witness ==
    /\ pc = "END" /\ Ran("execute") /\ db_env
    /\ Valid(ctx.generated_sql)
    /\ ctx.user_confirmed_sql = <<"insert">>
    /\ ctx.error = <<"SQL Validation Error: ">> \o MsgOnlySelect
    /\ ctx.execution_results = NONE
    /\ sent = {}

\* C2: once the error slot is set, no later stage function is invoked on the
\* context (the error slot is checked before every stage transition).
C2_NoStageAfterError ==
    \A i \in DOMAIN stage_log : ~stage_log[i].error

\* the measures json_lookup_node could not resolve, in the order asked
RECURSIVE UnresolvedOf(_)
UnresolvedOf(log) ==
    IF log = <<>> THEN <<>>
    ELSE IF Head(log).found THEN UnresolvedOf(Tail(log))
    ELSE <<Head(log).measure>> \o UnresolvedOf(Tail(log))

\* text m occurs in message msg
NamedIn(msg, m) ==
    \E i \in 1..Len(msg) :
        i + Len(m) - 1 <= Len(msg) /\ SubSeq(msg, i, i + Len(m) - 1) = m

Entries(configs, m) == { e \in configs : e[1] = m }

\* C3: json_lookup_node is all-or-nothing.  It asks for every identified
\* measure; if at least one does not resolve, the error names every
\* unresolved measure and measure_configs is left as it was (empty); if all
\* resolve, measure_configs holds exactly one entry per requested measure,
\* the config that was loaded for it, and the node sets no error.
C3_AllOrNothing ==
    Ran("json_lookup") =>
        /\ [i \in DOMAIN lookups |-> lookups[i].measure] = ctx.identified_measures
        /\ UnresolvedOf(lookups) # <<>> =>
              /\ \A i \in DOMAIN lookups :
                    ~lookups[i].found => NamedIn(ctx.error, lookups[i].measure)
              /\ ctx.measure_configs = {}
        /\ UnresolvedOf(lookups) = <<>> =>
              /\ \A i \in DOMAIN lookups :
                    Entries(ctx.measure_configs, lookups[i].measure)
                        = { <<lookups[i].measure, lookups[i].config>> }
              /\ \A e \in ctx.measure_configs :
                    \E i \in DOMAIN lookups : lookups[i].measure = e[1]
              /\ pc = "generate_sql" => ctx.error = NONE
              /\ Truthy(ctx.error) => ctx.error[1] # MsgNotFound(<< <<"m">> >>)[1]

\* three measures were asked for, one resolved and two did not: both are
\* named and nothing is stored
C3_Witness ==
    /\ Ran("json_lookup")
    /\ Len(UnresolvedOf(lookups)) = 2
    /\ Len(lookups) = 3
    /\ ctx.measure_configs = {}
    /\ ctx.error = MsgNotFound(UnresolvedOf(lookups))

\* lookup entry of a measure whose alias the index held while the file it
\* names was missing or malformed
BackingFileFailed(l) == ~l.found /\ l.filename # NoFile

\* lookup entry of a measure whose alias was in no index, before or after
\* the rescan
AliasNotFound(l) == ~l.found /\ l.filename = NoFile

\* C15: an alias that the index holds but whose backing file is missing or
\* malformed is reported differently from an alias that is not in the index:
\* get_measure_config returns different values in the two cases, and the
\* error json_lookup_node sets for the former is not the message it sets
\* when the same measures are simply not found.
C15_DistinctFailures ==
    /\ \A i, j \in DOMAIN lookups :
          BackingFileFailed(lookups[i]) /\ AliasNotFound(lookups[j])
              => lookups[i].config # lookups[j].config
    /\ Ran("json_lookup") /\ (\E i \in DOMAIN lookups : BackingFileFailed(lookups[i]))
          => ctx.error # MsgNotFound(UnresolvedOf(lookups))

-----------------------------------------------------------------------------
(* Claims about the review gates and the order of the stages *)

Published(t, type) ==
    \E i \in DOMAIN events : events[i].thread = t /\ events[i].what = type

\* an event what of dict r occurs before position i
Earlier(i, what, r) ==
    \E j \in 1..(i - 1) : events[j].what = what /\ events[j].run = r

GuiOrder ==
    << "input", "identify", "rewrite", "wait_confirm_query", "confirm_query",
       "json_lookup", "generate_sql", "wait_confirm_sql", "confirm_sql", "execute" >>

\* the order of the nodes of the compiled graph
NodeOrder ==
    << "input", "identify", "rewrite", "review1", "json_lookup", "generate_sql",
       "review2", "execute" >>

\* the place of each entry of GuiOrder
GuiRank ==
    [w \in { GuiOrder[k] : k \in DOMAIN GuiOrder } |->
        CHOOSE k \in DOMAIN GuiOrder : GuiOrder[k] = w]

Ordered(what) == what \in DOMAIN GuiRank

Rank(what) == GuiRank[what]

\* the last write of a query confirmation to dict r before position i
LastConfirmed(i, r) ==
    LET js == { j \in 1..(i - 1) : events[j].what = "confirm_query" /\ events[j].run = r }
    IN  events[CHOOSE j \in js : \A k \in js : k <= j].state.user_confirmed_query

C18_AutoConfirm ==
    \A i \in DOMAIN stage_log :
        stage_log[i].stage = "review1" /\ pc # "review1" =>
            /\ ~Truthy(stage_log[i].before.user_confirmed_query)
                  => ctx.user_confirmed_query = stage_log[i].before.rewritten_query
            /\ Truthy(stage_log[i].before.user_confirmed_query)
                  => ctx.user_confirmed_query = stage_log[i].before.user_confirmed_query

\* Intake, Interpret, Rewrite and the gate ran without error and without a
\* supplied confirmation: the confirmed query is the rewritten one
C18_Witness ==
    /\ Ran("review1") /\ pc = "json_lookup"
    /\ ctx.error = NONE
    /\ stage_log[4].before.user_confirmed_query = <<>>
    /\ ctx.rewritten_query = <<"rq">>
    /\ ctx.user_confirmed_query = <<"rq">>

\* C19: the text in the box when the user confirms is stored in the dict
\* exactly as it is: user_confirmed_query after confirm_rewritten_query and
\* user_confirmed_sql after confirm_and_execute_sql equal the content of
\* the box.
C19_ConfirmedTextAsReceived ==
    \A i \in DOMAIN events :
        /\ events[i].what = "confirm_query"
              => events[i].state.user_confirmed_query = events[i].text
        /\ events[i].what = "confirm_sql"
              => events[i].state.user_confirmed_sql = events[i].text

\* the Execute stage ran on dict r
ExecuteRan(r) == \E i \in DOMAIN events : events[i].what = "execute" /\ events[i].run = r

\* the gate decision of continue_thread t on dict r, once t has ended after
\* a successful generation
GateDecision(t, r) ==
    IF ~runs[r].sql_review_enabled
    THEN /\ \A i \in DOMAIN events :
               events[i].run = r => events[i].what \notin {"wait_confirm_sql", "confirm_sql"}
         /\ runs[r].user_confirmed_sql = runs[r].generated_sql
         /\ \E x \in DOMAIN threads :
               threads[x].kind = "execute" /\ threads[x].run = r /\ threads[x].by = "auto"
    ELSE /\ Published(t, "wait_confirm_sql")
         /\ \A x \in DOMAIN threads :
               threads[x].kind = "execute" /\ threads[x].run = r
                   => threads[x].by = "confirm_sql"

\* C20: with review off, after a successful generation no waiting message
\* for the SQL is put and no confirmation happens: the confirmed SQL is set
\* to the generated SQL and the Execute stage runs.  With review on, the
\* waiting message is put and Execute is started by the SQL confirmation
\* only.
C20_ReviewSwitch ==
    /\ \A t \in DOMAIN threads :
          threads[t].pc = "done" /\ Published(t, "sql_generated")
              => GateDecision(t, threads[t].run)
    /\ \A x \in DOMAIN threads :
          threads[x].kind = "execute" /\ threads[x].pc = "done"
              => ExecuteRan(threads[x].run)

-----------------------------------------------------------------------------
(* Claims about failures, terminal states and the ownership of the dict *)

MsgValidationFailed(sql) ==
    <<"Generated SQL validation failed: ">> \o validate_sql(sql).error_msg

\* the oracle returned a statement for state and validate_sql rejects it
RejectedGeneration(state) == state.generated_sql # <<>> /\ ~Valid(state.generated_sql)

\* an Execute thread was started for dict r
ExecuteStarted(r) ==
    \E x \in DOMAIN threads : threads[x].kind = "execute" /\ threads[x].run = r

\* C21: sql_generation_node validates the statement it got from the oracle
\* at once: when validate_sql rejects it, error is "Generated SQL validation
\* failed: " followed by the validator's reason, and in that run no
\* wait_confirm_sql message is put and Execute is not reached (no Execute
\* thread in the window, no execute node in the compiled graph).
C21_RejectedSqlStopsTheRun ==
    /\ \A r \in DOMAIN runs :
          RejectedGeneration(runs[r]) =>
              /\ runs[r].error = MsgValidationFailed(runs[r].generated_sql)
              /\ \A i \in DOMAIN events :
                    events[i].run = r
                        => events[i].what \notin {"sql_generated", "wait_confirm_sql",
                                                  "confirm_sql", "execute"}
              /\ ~ExecuteStarted(r)
    /\ Ran("generate_sql") /\ pc # "review2" /\ RejectedGeneration(ctx) =>
          /\ ctx.error = MsgValidationFailed(ctx.generated_sql)
          /\ pc = "END"
          /\ ~Ran("execute")

\* in the window the oracle answered with an INSERT statement: the worker
\* put the validator's reason as an error and ended
C21_Witness ==
    \E t \in DOMAIN threads :
        /\ threads[t].pc = "done" /\ Published(t, "generate_sql")
        /\ threads[t].run \in DOMAIN runs
        /\ runs[threads[t].run].generated_sql = <<"insert">>
        /\ runs[threads[t].run].error
              = <<"Generated SQL validation failed: ">> \o MsgOnlySelect
        /\ \E i \in DOMAIN events :
              /\ events[i].thread = t /\ events[i].what = "error"
              /\ events[i].text = runs[threads[t].run].error

\* the Execute node has returned without having had a data store to talk
\* to: no connection string, or connect() failed
EngineUnreachable == Ran("execute") /\ pc = "END" /\ (~db_env \/ db.connection = "None")

\* C22: when the data store cannot be reached during Execute (no connection
\* string is configured, or connect() fails), execute_and_export_node sets
\* error and leaves execution_results absent, and nothing is handed to the
\* driver; in the window no 'results' message is put for a dict without
\* results and the export button is not enabled for it.
C22_UnreachableEngine ==
    /\ EngineUnreachable =>
          /\ Truthy(ctx.error)
          /\ ctx.execution_results = NONE
          /\ sent = {}
    /\ \A r \in DOMAIN runs :
          runs[r].execution_results = NONE =>
              /\ \A i \in DOMAIN events : events[i].run = r => events[i].what # "results"
              /\ gui.current_state = r => ~gui.export_btn

\* a valid statement reached Execute with a connection string configured,
\* connect() failed, and the node reported that no connection is established
C22_Witness ==
    /\ EngineUnreachable /\ db_env
    /\ Valid(ctx.user_confirmed_sql)
    /\ stage_log[Len(stage_log)].before.error = NONE
    /\ ctx.error = MsgNotEstablished
    /\ ctx.execution_results = NONE

\* the number of submits up to position i: the dict of the latest run
LatestRun(i) == Cardinality({ j \in 1..i : events[j].what = "submit" })

\* the clicks of one kind, and the threads they started, in order
Clicks(what) == SelectSeq(events, LAMBDA e : e.what = what)

StartedBy(by) == SelectSeq(threads, LAMBDA t : t.by = by)

\* the gate of a click
GateOf(what) == IF what = "confirm_query" THEN "wait_confirm_query" ELSE "wait_confirm_sql"

\* the k-th thread started by clicks of one kind works on the dict that the
\* k-th click wrote to
ResumesItsRun(what) ==
    /\ Len(StartedBy(what)) = Len(Clicks(what))
    /\ \A k \in 1..Len(Clicks(what)) :
          StartedBy(what)[k].run \in {0, Clicks(what)[k].run}

\* C23: a confirmation is applied only to the run whose waiting message
\* enabled it, never to a later run.  Every click on a confirm button writes
\* to the dict of the latest submit, that run has put the waiting message of
\* that gate and has not put an error, the gate is confirmed once per run,
\* and the thread the click starts works on the dict the click wrote to.
C23_ConfirmationStaysInItsRun ==
    /\ \A i \in DOMAIN events :
          events[i].what \in {"confirm_query", "confirm_sql"} =>
              /\ events[i].run = LatestRun(i)
              /\ Earlier(i, GateOf(events[i].what), events[i].run)
              /\ \A j \in 1..(i - 1) :
                    events[j].run = events[i].run
                        => events[j].what \notin {"error", events[i].what}
    /\ ResumesItsRun("confirm_query")
    /\ ResumesItsRun("confirm_sql")

\* a first run ended in an error after its query had been confirmed, and
\* in a second run the query was confirmed and its thread went to work
C23_Witness ==
    /\ Len(runs) = 2
    /\ Len(Clicks("confirm_query")) = 2
    /\ Clicks("confirm_query")[1].run = 1 /\ Clicks("confirm_query")[2].run = 2
    /\ StartedBy("confirm_query")[2].run = 2
    /\ \E i \in DOMAIN events : events[i].run = 1 /\ events[i].what = "error"

\* C24: no failure escapes: every failure of a stage, reported by the stage
\* or raised inside it, is written into the error slot of the dict and is
\* put as an 'error' message.  Whenever a worker has put an 'error' message
\* for a dict, the error slot of that dict holds that text, and a dict with
\* error set has had an 'error' message put for it.
C24_NoFailureEscapes ==
    /\ \A i \in DOMAIN events :
          events[i].what = "error" => runs[events[i].run].error = events[i].text
    /\ \A r \in DOMAIN runs :
          Truthy(runs[r].error) =>
              \E i \in DOMAIN events :
                  events[i].what = "error" /\ events[i].run = r
                      /\ events[i].text = runs[r].error

StageNames == { GuiOrder[k] : k \in DOMAIN GuiOrder } \ {"wait_confirm_query",
                  "confirm_query", "wait_confirm_sql", "confirm_sql"}

\* in the window every stage ran at most once on each dict, and none ran on
\* a dict after an 'error' message had been put for it
OncePerRun ==
    \A i \in DOMAIN events :
        events[i].what \in StageNames =>
            \A j \in 1..(i - 1) :
                events[j].run = events[i].run
                    => events[j].what \notin {events[i].what, "error"}

\* C25: exactly-once progression with a terminal state.  Within a run every
\* stage function is invoked at most once, and once the error slot is set
\* (or Execute has returned) no further stage is invoked on that dict: in
\* the compiled graph no node is invoked twice or on a state whose error is
\* set, nor after the execute node; in the window no stage runs twice on a
\* dict or after an 'error' message for it.
C25_ExactlyOnceThenTerminal ==
    /\ \A i, j \in DOMAIN stage_log :
          i < j => /\ stage_log[i].stage # stage_log[j].stage
                   /\ stage_log[i].stage # "execute"
    /\ \A i \in DOMAIN stage_log : ~Truthy(stage_log[i].before.error)
    /\ OncePerRun

\* the threads that are at work on dict r
Owners(r) == { t \in DOMAIN threads : threads[t].pc # "done" /\ StateOf(t) = r }

\* C26: the dict has one owner at every moment.  At most one worker thread
\* is at work on a dict, and whenever the Tk thread can write to a dict (a
\* confirm button is enabled, so that a click would write to current_state)
\* no worker is at work on it.
C26_SingleOwner ==
    \A r \in DOMAIN runs :
        /\ Cardinality(Owners(r)) <= 1
        /\ gui.current_state = r /\ (gui.confirm_query_btn \/ gui.confirm_sql_btn)
              => Owners(r) = {}

\* the dict went from the first worker to the Tk thread, which wrote the
\* edited query, and on to the thread the click started, now at work on it
C26_Witness ==
    /\ Len(threads) = 2
    /\ threads[1].pc = "done" /\ Published(1, "wait_confirm_query")
    /\ Owners(1) = {2} /\ threads[2].pc = "generate_sql"
    /\ runs[1].user_confirmed_query = <<"my">>

\* no 'sql_generated' or waiting message for the SQL was put for dict r
SqlNotShown(r) ==
    \A i \in DOMAIN events :
        events[i].run = r => events[i].what \notin {"sql_generated", "wait_confirm_sql"}

\* C27: when error is set during or before the generation of the SQL, the
\* generated SQL is not exposed: no 'sql_generated' message is put, and
\* neither generated_sql nor the confirmed SQL holds anything that came from
\* the failed generation (in the window the dict keeps the empty
\* generated_sql and the absent confirmed SQL it was created with; in the
\* compiled graph generated_sql stays empty and the confirmed SQL is what the
\* caller supplied).
C27_FailedSqlNotExposed ==
    /\ \A r \in DOMAIN runs :
          Truthy(runs[r].error) =>
              /\ SqlNotShown(r)
              /\ runs[r].generated_sql = <<>>
              /\ runs[r].user_confirmed_sql = NONE
    /\ pc = "END" /\ Truthy(ctx.error) /\ ~Ran("execute") =>
          /\ ctx.generated_sql = <<>>
          /\ ctx.user_confirmed_sql = stage_log[1].before.user_confirmed_sql

\* the gate that continue_thread t opened or skipped, once it has ended
\* after a successful generation, follows the switch value review
GateFollows(t, review) ==
    /\ review <=> Published(t, "wait_confirm_sql")
    /\ ~review <=> \E x \in DOMAIN threads :
                      /\ threads[x].kind = "execute" /\ threads[x].by = "auto"
                      /\ threads[x].run = threads[t].run

\* C28: sql_review_enabled and the query text are fixed when the dict is
\* created at submit.  Whatever stages have run and whatever the user has
\* done since (toggling the checkbox, editing, confirming), the dict holds
\* the query and the switch value it was created with, and the SQL gate is
\* decided by that value; in the compiled graph no node changes either
\* field.
C28_FixedAtSubmit ==
    /\ \A i \in DOMAIN events :
          events[i].what = "submit" =>
              /\ runs[events[i].run].user_query = events[i].state.user_query
              /\ runs[events[i].run].sql_review_enabled
                    = events[i].state.sql_review_enabled
              /\ \A t \in DOMAIN threads :
                    /\ threads[t].run = events[i].run /\ threads[t].pc = "done"
                    /\ Published(t, "sql_generated")
                    => GateFollows(t, events[i].state.sql_review_enabled)
    /\ \A i \in DOMAIN stage_log :
          /\ stage_log[i].before.user_query = ctx.user_query
          /\ stage_log[i].before.sql_review_enabled = ctx.sql_review_enabled

\* a run was submitted with review on, the user unticked the checkbox while
\* it was in progress, and the worker still opened the SQL gate
C28_Witness ==
    \E t \in DOMAIN threads :
        /\ threads[t].run \in DOMAIN runs
        /\ runs[threads[t].run].sql_review_enabled
        /\ ~gui.sql_review_var
        /\ gui.current_state = threads[t].run
        /\ Published(t, "wait_confirm_sql")

\* the statement execute_and_export_node passes on
ExecutedSql(state) ==
    IF Truthy(state.user_confirmed_sql) THEN state.user_confirmed_sql
    ELSE state.generated_sql

\* the Execute node was invoked without error on a valid statement, with a
\* connection string configured, and returned with error set: the data
\* store failed, at connect() or while running the statement
EngineFailed ==
    /\ Ran("execute") /\ pc = "END" /\ db_env
    /\ stage_log[Len(stage_log)].before.error = NONE
    /\ Valid(ExecutedSql(stage_log[Len(stage_log)].before))
    /\ Truthy(ctx.error)

\* C29: when the data store fails to connect or fails while it runs the
\* statement, the error put into the state is the data store's own error
\* text, unchanged.
C29_EngineErrorVerbatim ==
    EngineFailed => ctx.error = <<EngineError>>

\* C30: rebuilding and saving the index is not under mutual exclusion.  A
\* thread that is about to rescan is never held back by a thread that is
\* inside scan_measures_directory, and a thread that is about to save is
\* never held back by another one that is: a rescan started by the upload
\* and a rescan-on-miss of a worker can be inside it, on the same index
\* file, at the same time.
C30_RescanNotExclusive ==
    \A p \in DOMAIN threads :
        /\ threads[p].pc = "scan" => ENABLED ScanEnter(p)
        /\ threads[p].pc = "save" => ENABLED ScanSave(p)

\* the upload on the Tk thread and the lookup of a worker are both inside
\* scan_measures_directory, each with a rebuilt index it has yet to save
C30_Witness ==
    \E p, q \in InScan(threads) :
        threads[p].kind = "upload" /\ threads[q].kind = "lookup"

-----------------------------------------------------------------------------
(* Claims about repeated calls, the Execute unit of work of the window and *)
(* the messages of a run.                                                   *)

\* the step is a loader call that repeats the call before it: the same
\* operation, for a find the same name, on a directory holding what it held,
\* and for a scan with glob listing the files in the same order
Repeats ==
    /\ calls' = calls + 1
    /\ lookup.op \in {"scan", "find"}
    /\ lookup'.op = lookup.op
    /\ lookup'.name = lookup.name
    /\ lookup'.dir = lookup.dir
    /\ lookup'.order = lookup.order

\* C31: rebuilds and lookups are idempotent.  With the directory unchanged a
\* second scan_measures_directory leaves the index in memory and the index
\* file as the first one left them, and a second find_measure_json for the
\* same name returns what the first one returned.
C31_Idempotent ==
    [][ Repeats =>
          /\ lookup'.op = "scan" => index' = index /\ index_file' = index_file
          /\ lookup'.op = "find" => lookup'.result = lookup.result ]_vars

\* a scan repeated on a directory whose two files declare the same key
C31_Witness ==
    /\ lookup.again /\ lookup.op = "scan"
    /\ \A f \in FileIds : Declares(measures_dir, f, <<"ce">>)
    /\ Has(index, <<"ce">>)

\* C32: a statement whose cleaned form (comments removed, uppercased,
\* trimmed) begins with SELECT and holds no forbidden keyword as a whole word
\* is valid, and no reason is given.
C32_ReadOnlySelectAccepted ==
    (Called /\ startswith(Cleaned, "SELECT") /\ WholeWordKeywords(Cleaned) = {})
        => validation.is_valid /\ validation.error_msg = NONE

\* a statement of several words on two lines, free of keywords once its
\* comment is removed, accepted
C32_Witness ==
    /\ Called /\ validation.is_valid
    /\ StripComments(sql_in) # sql_in
    /\ Len(Cleaned) >= 3
    /\ \E i \in 1..Len(Cleaned) : Cleaned[i] = NL
    /\ \A i \in 1..Len(Cleaned) : Cleaned[i] \notin KeywordSet

\* the Execute unit of work x has ended with the outcome of the Execute
\* stage published: the 'results' message, or the 'error' message with the
\* error that the stage left in the dict
StagePublished(x, r) ==
    \/ Published(x, "results")
    \/ /\ Truthy(runs[r].error)
       /\ \E i \in DOMAIN events :
             /\ events[i].thread = x /\ events[i].what = "error"
             /\ events[i].text = runs[r].error

\* C33: in the window, once the SQL is confirmed (or review is off) and the
\* statement is valid, the Execute unit of work runs the Execute stage on
\* the dict of its run and publishes what the stage gave: the 'results'
\* message when the data engine returned rows.
C33_ExecutePublishesResults ==
    \A x \in DOMAIN threads :
        /\ threads[x].kind = "execute" /\ threads[x].pc = "done"
        /\ validate_sql(runs[threads[x].run].user_confirmed_sql).is_valid
        => /\ ExecuteRan(threads[x].run)
           /\ StagePublished(x, threads[x].run)

\* the dict as the Execute node found it, and the SQL that the reviewer of
\* the run confirmed: the user_confirmed_sql the run was given, with review
\* on (None when the reviewer gave nothing)
AtExecute == stage_log[Len(stage_log)].before

ReviewerSql ==
    IF stage_log[1].before.sql_review_enabled
    THEN stage_log[1].before.user_confirmed_sql ELSE NONE

\* C34: what the Execute stage hands to the data store is exactly the
\* confirmed SQL of the run; the generated SQL is handed over only when it
\* is the confirmed SQL, never in the place of a confirmed text that the
\* reviewer changed or emptied.
C34_OnlyTheConfirmedSqlRuns ==
    Ran("execute") /\ pc = "END" =>
        /\ sent \subseteq {AtExecute.user_confirmed_sql}
        /\ ReviewerSql # NONE => sent \subseteq {ReviewerSql}

\* a terminal message of dict r was put
Terminal(r) ==
    \E i \in DOMAIN events :
        events[i].run = r /\ events[i].thread # 0 /\ events[i].what \in {"error", "results"}

\* a terminal message waits in the queue for the next poll
TerminalWaits ==
    gui.polling /\ \E k \in DOMAIN queue : queue[k].type \in {"error", "results"}

\* C35: after the run has reached its terminal outcome on the window (an
\* 'error' message, or a 'results' message with any number of rows), Submit
\* is enabled again: once the terminal message of the latest run is put,
\* Submit is enabled, or the message is in the queue and the next poll of
\* the queue enables it.
C35_SubmitEnabledAgain ==
    (runs # <<>> /\ Terminal(Len(runs))) => (gui.submit_btn \/ TerminalWaits)

ProgressMessages ==
    { "identified", "rewritten", "sql_generated", "wait_confirm_query", "wait_confirm_sql" }

\* the positions of events at which a terminal message of dict r is put
TerminalPuts(r) ==
    { i \in DOMAIN events :
        events[i].run = r /\ events[i].thread # 0 /\ events[i].what \in {"error", "results"} }

\* C36: a run publishes at most one terminal message: not an 'error' and a
\* 'results' message, not two 'error' messages, and after its 'error'
\* message none of 'identified', 'rewritten', 'sql_generated',
\* 'wait_confirm_query', 'wait_confirm_sql'.
C36_OneTerminalMessage ==
    \A r \in DOMAIN runs :
        /\ Cardinality(TerminalPuts(r)) <= 1
        /\ \A i \in TerminalPuts(r) : \A j \in DOMAIN events :
              (j > i /\ events[j].run = r /\ events[j].thread # 0)
                  => events[j].what \notin ProgressMessages

\* two runs, the first ended after both gates by the failure of its Execute
\* thread, the second by the oracle failing at once
C36_Witness ==
    /\ Len(runs) = 2
    /\ TerminalPuts(1) # {} /\ TerminalPuts(2) # {}
    /\ \E i \in DOMAIN events : events[i].run = 1 /\ events[i].what = "wait_confirm_sql"
    /\ \A i \in DOMAIN events : events[i].run = 2 => events[i].what \notin ProgressMessages

\* the step leaves the channel in order: messages are added at the back
\* and taken from the front
InOrder ==
    \/ Len(queue') >= Len(queue) /\ SubSeq(queue', 1, Len(queue)) = queue
    \/ \E k \in 1..Len(queue) : queue' = SubSeq(queue, k + 1, Len(queue))

\* message display of dict r was put before message gate of dict r, and
\* neither is in the queue any more
ShownBefore(display, gate, r) ==
    /\ \E j \in DOMAIN events :
          /\ events[j].what = gate /\ events[j].run = r /\ Earlier(j, display, r)
    /\ \A k \in DOMAIN queue' : queue'[k].run = r => queue'[k].type \notin {display, gate}

\* C37: the window takes the messages of the workers in the order in which
\* they were put, in a poll that never waits; so when a confirm button
\* becomes enabled, the text it confirms has been put and handled first:
\* the dict of the message is the current state, the rewritten query (or
\* what the user has typed over it since) is in its box, and the generated
\* SQL is in the SQL box, which is editable from then on.
C37_DisplayedBeforeConfirm ==
    [][ /\ InOrder
        /\ (~gui.confirm_query_btn /\ gui'.confirm_query_btn) =>
              /\ gui'.current_state \in DOMAIN runs
              /\ ShownBefore("rewritten", "wait_confirm_query", gui'.current_state)
              /\ gui'.rewritten_editable
              /\ gui'.rewritten_text \in
                    {runs[gui'.current_state].rewritten_query} \cup RewrittenEdits
        /\ (~gui.confirm_sql_btn /\ gui'.confirm_sql_btn) =>
              /\ gui'.current_state \in DOMAIN runs
              /\ ShownBefore("sql_generated", "wait_confirm_sql", gui'.current_state)
              /\ gui'.sql_editable
              /\ gui'.sql_text = runs[gui'.current_state].generated_sql ]_vars

\* the SQL gate of a second run is open, the generated SQL in the box
C37_Witness ==
    /\ Len(runs) = 2 /\ gui.current_state = 2
    /\ gui.confirm_sql_btn /\ gui.sql_editable
    /\ gui.sql_text = runs[2].generated_sql /\ gui.sql_text # <<>>
    /\ queue = <<>>

\* file f of dir is a configuration that can be indexed
WellFormed(dir, f) == dir[f].kind = "dict"

DeclaredAt(dir, order, key) ==
    { i \in 1..Len(order) : Declares(dir, order[i], key) }

Max(S) == CHOOSE x \in S : \A y \in S : x >= y

\* C39: after a rebuild every key maps to exactly one file, and a key
\* declared by several files maps to the one that was scanned last; the
\* rebuild completes with the index saved.
C39_LastWriterWins ==
    lookup.op = "scan" =>
        /\ \A e1, e2 \in index : e1[1] = e2[1] => e1 = e2
        /\ \A e \in index :
              /\ DeclaredAt(lookup.dir, lookup.order, e[1]) # {}
              /\ e[2] = lookup.order[Max(DeclaredAt(lookup.dir, lookup.order, e[1]))]
        /\ index_file = save_index(index)

\* both files declare "ce", glob listed b.json first, and "ce" maps to a.json
C39_Witness ==
    /\ lookup.op = "scan"
    /\ Cardinality(DeclaredAt(lookup.dir, lookup.order, <<"ce">>)) = 2
    /\ lookup.order = <<"b.json", "a.json">>
    /\ Has(index, <<"ce">>) /\ Get(index, <<"ce">>) = "a.json"
====
